---------------------------- MODULE Spec2Model ----------------------------
(***************************************************************************)
(* A model of the nand2tetris grader's grading pipeline                    *)
(* (grading_engine.py), its configuration (config.py) and the batch loop   *)
(* of the bot that drives it (bot.py, _start_grading).                     *)
(*                                                                         *)
(* Conventions.                                                            *)
(*  - A Python str is a sequence of one-character strings, so that         *)
(*    lower(), strip(), substring tests and the regular expressions of     *)
(*    _normalize are computed character by character.                      *)
(*  - Points are integers counting hundredths of a point ("cents"):        *)
(*    0.65 is 65.  round(x, 2) is Round2, which works on the exact         *)
(*    rational n/d.                                                        *)
(*  - A dict is a sequence of [key, value] records in insertion order.     *)
(***************************************************************************)
EXTENDS Integers, Sequences, FiniteSets, TLC

(***************************************************************************)
(* Python str primitives                                                   *)
(***************************************************************************)
UpperChars == <<"A","B","C","D","E","F","G","H","I","J","K","L","M",
                "N","O","P","Q","R","S","T","U","V","W","X","Y","Z">>

LowerChars == <<"a","b","c","d","e","f","g","h","i","j","k","l","m",
                "n","o","p","q","r","s","t","u","v","w","x","y","z">>

DigitChars == {"0","1","2","3","4","5","6","7","8","9"}

\* str.lower() on one character
LowerChar(c) ==
    IF \E i \in 1..Len(UpperChars) : UpperChars[i] = c
    THEN LowerChars[CHOOSE i \in 1..Len(UpperChars) : UpperChars[i] = c]
    ELSE c

\* str.lower()
Lower(s) == [i \in 1..Len(s) |-> LowerChar(s[i])]

\* what \s matches
IsSpace(c) == c \in {" ", "\t", "\n", "\r"}

\* what \d matches
IsDigit(c) == c \in DigitChars

\* s[i:]  (i is 1-based here)
From(s, i) == SubSeq(s, i, Len(s))

\* str.endswith
EndsWith(s, suf) ==
    /\ Len(s) >= Len(suf)
    /\ SubSeq(s, Len(s) - Len(suf) + 1, Len(s)) = suf

\* str.startswith
StartsWith(s, pre) ==
    /\ Len(s) >= Len(pre)
    /\ SubSeq(s, 1, Len(pre)) = pre

\* needle in hay
Contains(hay, needle) ==
    \E i \in 0..(Len(hay) - Len(needle)) :
        SubSeq(hay, i + 1, i + Len(needle)) = needle

\* the first index >= i of s that holds no whitespace (Len(s)+1 if none)
RECURSIVE SkipSpaces(_, _)
SkipSpaces(s, i) ==
    IF i <= Len(s) /\ IsSpace(s[i]) THEN SkipSpaces(s, i + 1) ELSE i

\* the first index >= i of s that holds no digit (Len(s)+1 if none)
RECURSIVE SkipDigits(_, _)
SkipDigits(s, i) ==
    IF i <= Len(s) /\ IsDigit(s[i]) THEN SkipDigits(s, i + 1) ELSE i

\* the last index <= i of s that holds no whitespace (0 if none)
RECURSIVE SkipSpacesBack(_, _)
SkipSpacesBack(s, i) ==
    IF i >= 1 /\ IsSpace(s[i]) THEN SkipSpacesBack(s, i - 1) ELSE i

\* str.strip()
Strip(s) == SubSeq(s, SkipSpaces(s, 1), SkipSpacesBack(s, Len(s)))

(***************************************************************************)
(* _normalize (grading_engine.py 175-182)                                  *)
(***************************************************************************)
\* the end (exclusive) of a match of \s*\(\d+\)\s* starting at i, or 0
CounterMatchEnd(s, i) ==
    LET j == SkipSpaces(s, i)
        k == SkipDigits(s, j + 1)
    IN  IF /\ j <= Len(s) /\ s[j] = "("
           /\ k > j + 1
           /\ k <= Len(s) /\ s[k] = ")"
        THEN SkipSpaces(s, k + 1)
        ELSE 0

\* re.sub(r'\s*\(\d+\)\s*', '', s), scanning from index i
RECURSIVE SubCounter(_, _)
SubCounter(s, i) ==
    IF i > Len(s) THEN << >>
    ELSE LET e == CounterMatchEnd(s, i)
         IN  IF e > 0 THEN SubCounter(s, e)
             ELSE << s[i] >> \o SubCounter(s, i + 1)

\* the end (exclusive) of a match of \s*copy\s*\d* (IGNORECASE) at i, or 0
CopyMatchEnd(s, i) ==
    LET j == SkipSpaces(s, i)
    IN  IF /\ j + 3 <= Len(s)
           /\ Lower(SubSeq(s, j, j + 3)) = <<"c","o","p","y">>
        THEN SkipDigits(s, SkipSpaces(s, j + 4))
        ELSE 0

\* re.sub(r'\s*copy\s*\d*', '', s, flags=re.IGNORECASE), scanning from i
RECURSIVE SubCopy(_, _)
SubCopy(s, i) ==
    IF i > Len(s) THEN << >>
    ELSE LET e == CopyMatchEnd(s, i)
         IN  IF e > 0 THEN SubCopy(s, e)
             ELSE << s[i] >> \o SubCopy(s, i + 1)

\* re.sub(r'[\s_\-]+', '', s)
SubSeparators(s) == SelectSeq(s, LAMBDA c : ~(IsSpace(c) \/ c = "_" \/ c = "-"))

\* re.sub(r'\.hdl$', '', s, flags=re.IGNORECASE) and the same for .asm
SubSuffix(s, suf) ==
    IF EndsWith(Lower(s), suf) THEN SubSeq(s, 1, Len(s) - Len(suf)) ELSE s

ExtHdl == <<".","h","d","l">>

ExtAsm == <<".","a","s","m">>

_normalize(name) ==
    LET n1 == Strip(name)
        n2 == SubCounter(n1, 1)
        n3 == SubCopy(n2, 1)
        n4 == SubSeparators(n3)
        n5 == SubSuffix(n4, ExtHdl)
        n6 == SubSuffix(n5, ExtAsm)
    IN  Lower(n6)

(***************************************************************************)
(* dict helpers: a dict is a sequence of [key, value] in insertion order   *)
(***************************************************************************)
\* k in d
DictHas(d, k) == \E i \in 1..Len(d) : d[i].key = k

\* d[k]
DictGet(d, k) == d[CHOOSE i \in 1..Len(d) : d[i].key = k].value

\* d[k] = v : an existing key keeps its place, a new one is appended
DictSet(d, k, v) ==
    IF DictHas(d, k)
    THEN [i \in 1..Len(d) |-> IF d[i].key = k THEN [key |-> k, value |-> v]
                                               ELSE d[i]]
    ELSE Append(d, [key |-> k, value |-> v])

\* set(d)
DictKeys(d) == { d[i].key : i \in 1..Len(d) }

\* list.remove(x): drops the first element equal to x
ListRemove(l, x) ==
    IF \E i \in 1..Len(l) : l[i] = x
    THEN LET i == CHOOSE j \in 1..Len(l) :
                      l[j] = x /\ \A k \in 1..(j - 1) : l[k] # x
         IN  SubSeq(l, 1, i - 1) \o SubSeq(l, i + 1, Len(l))
    ELSE l

(***************************************************************************)
(* _extract_zip (grading_engine.py 269-289)                                *)
(*                                                                         *)
(* An archive's content is the sequence of its files in the order os.walk  *)
(* yields them, each [dir, file]: dir is the name of the directory below   *)
(* the extraction root that holds it (<< >> for the root itself).  The     *)
(* path of an extracted file is modelled by that [dir, file] record.       *)
(***************************************************************************)
HiddenPrefixes == { <<".">>, <<"_","_">> }

\* str.startswith(('.', '__'))
IsHidden(n) == \E p \in HiddenPrefixes : StartsWith(n, p)

\* while name.lower().endswith(file_ext): name = name[:-len(file_ext)]
RECURSIVE StripExt(_, _)
StripExt(name, ext) ==
    IF Len(ext) > 0 /\ EndsWith(Lower(name), ext)
    THEN StripExt(SubSeq(name, 1, Len(name) - Len(ext)), ext)
    ELSE name

\* the walk over the extracted tree, from entry i on, adding to found
RECURSIVE WalkFrom(_, _, _, _)
WalkFrom(entries, i, ext, found) ==
    IF i > Len(entries) THEN found
    ELSE LET e    == entries[i]
             f    == e.file
             name == StripExt(f, ext)
             keep == /\ ~(Len(e.dir) > 0 /\ IsHidden(e.dir))
                     /\ ~IsHidden(f)
                     /\ EndsWith(Lower(f), ext)
                     /\ Len(name) > 0
                     /\ ~DictHas(found, name)
         IN  CHOOSE r \in
                 { WalkFrom(entries, i + 1, ext, fnd) :
                     fnd \in { IF keep
                               THEN Append(found, [key |-> name, value |-> e])
                               ELSE found } } : TRUE

\* the found mapping _extract_zip returns for a readable archive
_extract_zip(entries, ext) == WalkFrom(entries, 1, ext, << >>)

(***************************************************************************)
(* _match_files (grading_engine.py 185-259)                                *)
(***************************************************************************)
FileMatch(exp, actual, type, issue) ==
    [expected_name |-> exp, actual_filename |-> actual,
     match_type |-> type, issue |-> issue]

\* found_norm (190-192)
FoundNormHas(found, k) == \E i \in 1..Len(found) : _normalize(found[i].key) = k

\* found_norm[k]: the last entry of found whose key normalizes to k wins
FoundNormGet(found, k) ==
    found[CHOOSE i \in 1..Len(found) :
              /\ _normalize(found[i].key) = k
              /\ \A j \in (i + 1)..Len(found) : _normalize(found[j].key) # k]

\* found_lower (203-204), built from the files not in used0
FoundLowerHas(found, used0, k) ==
    \E i \in 1..Len(found) : found[i].key \notin used0 /\ Lower(found[i].key) = k

\* found_lower[k]: the last unused entry of found whose lowered key is k wins
FoundLowerGet(found, used0, k) ==
    found[CHOOSE i \in 1..Len(found) :
              /\ found[i].key \notin used0 /\ Lower(found[i].key) = k
              /\ \A j \in (i + 1)..Len(found) :
                     ~(found[j].key \notin used0 /\ Lower(found[j].key) = k)]

\* the state the passes work on
MatchInit(expected_names) ==
    [matched |-> << >>, matches |-> << >>, used |-> {},
     remaining |-> << >>]

\* Pass 1: exact (194-199), the body of the loop for one expected name
Pass1Step(st, found, exp, ext) ==
    IF DictHas(found, exp)
    THEN [st EXCEPT
             !.matched = DictSet(@, exp, DictGet(found, exp)),
             !.used    = @ \cup {exp},
             !.matches = Append(@, FileMatch(exp, exp \o ext, "exact", << >>))]
    ELSE st

RECURSIVE Pass1From(_, _, _, _, _)
Pass1From(st, found, expected_names, ext, i) ==
    IF i > Len(expected_names) THEN st
    ELSE CHOOSE r \in
             { Pass1From(s, found, expected_names, ext, i + 1) :
                 s \in { Pass1Step(st, found, expected_names[i], ext) } } : TRUE

\* Pass1 left out: the exact names are left to the later passes
Pass1Skipped(st, found, expected_names, ext) == st

Pass1(st, found, expected_names, ext) ==
    Pass1From(st, found, expected_names, ext, 1)

\* remaining = [n for n in expected_names if n not in matched] (202)
Remaining(st, expected_names) ==
    SelectSeq(expected_names, LAMBDA n : ~DictHas(st.matched, n))

\* Pass 2: case insensitive (205-213), the body of the loop for one name;
\* used0 is the set found_lower was built from (203-204)
Pass2Step(st, found, exp, ext, used0) ==
    IF FoundLowerHas(found, used0, Lower(exp))
    THEN LET e == FoundLowerGet(found, used0, Lower(exp))
         IN  [st EXCEPT
                 !.matched   = DictSet(@, exp, e.value),
                 !.used      = @ \cup {e.key},
                 !.remaining = ListRemove(@, exp),
                 !.matches   = Append(@, FileMatch(exp, e.key \o ext,
                     "case_fix",
                     <<"Named", e.key \o ext, "instead of", exp \o ext>>))]
    ELSE st

\* todo is the copy remaining[:]
RECURSIVE Pass2From(_, _, _, _, _, _)
Pass2From(st, found, ext, todo, used0, i) ==
    IF i > Len(todo) THEN st
    ELSE CHOOSE r \in
             { Pass2From(s, found, ext, todo, used0, i + 1) :
                 s \in { Pass2Step(st, found, todo[i], ext, used0) } } : TRUE

Pass2(st, found, expected_names, ext) ==
    CHOOSE r \in
        { Pass2From([st EXCEPT !.remaining = rem], found, ext, rem, st.used, 1) :
            rem \in { Remaining(st, expected_names) } } : TRUE

\* Pass 3: normalized (216-227), the body of the loop for one name
Pass3Step(st, found, exp, ext) ==
    LET exp_norm == _normalize(exp)
    IN  IF FoundNormHas(found, exp_norm)
           /\ FoundNormGet(found, exp_norm).key \notin st.used
        THEN LET e == FoundNormGet(found, exp_norm)
             IN  [st EXCEPT
                     !.matched   = DictSet(@, exp, e.value),
                     !.used      = @ \cup {e.key},
                     !.remaining = ListRemove(@, exp),
                     !.matches   = Append(@, FileMatch(exp, e.key \o ext,
                         "fuzzy",
                         <<"Named", e.key \o ext, "assumed to be", exp \o ext>>))]
        ELSE st

RECURSIVE Pass3From(_, _, _, _, _)
Pass3From(st, found, ext, todo, i) ==
    IF i > Len(todo) THEN st
    ELSE CHOOSE r \in
             { Pass3From(s, found, ext, todo, i + 1) :
                 s \in { Pass3Step(st, found, todo[i], ext) } } : TRUE

Pass3(st, found, ext) == Pass3From(st, found, ext, st.remaining, 1)

\* the substring test of pass 4 (237-238)
IsCandidate(exp, name) ==
    LET exp_lower == Lower(exp)
        nl        == Lower(name)
    IN  Contains(nl, exp_lower) \/ Contains(exp_lower, nl)

Max(a, b) == IF a >= b THEN a ELSE b

\* score = len(exp_lower) / max(len(nl), 1) (239), kept as a fraction
Score(exp, name) == [num |-> Len(exp), den |-> Max(Len(name), 1)]

\* a > b for two fractions
FracGt(a, b) == a.num * b.den > b.num * a.den

\* the threshold 0.4 of line 243, as the fraction 2/5
FuzzyThreshold == [num |-> 2, den |-> 5]

\* best = None, best_score = 0 (232-233)
NoBest == [some |-> FALSE, entry |-> [key |-> << >>, value |-> << >>],
           score |-> [num |-> 0, den |-> 1]]

\* the body of the inner loop of pass 4 (234-242) for one found entry
BestStep(best, used, exp, e) ==
    IF /\ e.key \notin used
       /\ IsCandidate(exp, e.key)
       /\ FracGt(Score(exp, e.key), best.score)
    THEN [some |-> TRUE, entry |-> e, score |-> Score(exp, e.key)]
    ELSE best

RECURSIVE BestFrom(_, _, _, _, _)
BestFrom(best, found, used, exp, j) ==
    IF j > Len(found) THEN best
    ELSE CHOOSE r \in
             { BestFrom(b, found, used, exp, j + 1) :
                 b \in { BestStep(best, used, exp, found[j]) } } : TRUE

Best(found, used, exp) == BestFrom(NoBest, found, used, exp, 1)

\* Accepts with >= written for >
AcceptsAtThreshold(best) == best.some /\ ~FracGt(FuzzyThreshold, best.score)

\* if best and best_score > 0.4 (243)
Accepts(best) == best.some /\ FracGt(best.score, FuzzyThreshold)

\* Pass 4: substring (230-251), the body of the outer loop for one name
Pass4Step(st, found, exp, ext) ==
    CHOOSE r \in
        { IF Accepts(best)
          THEN [st EXCEPT
                   !.matched   = DictSet(@, exp, best.entry.value),
                   !.used      = @ \cup {best.entry.key},
                   !.remaining = ListRemove(@, exp),
                   !.matches   = Append(@, FileMatch(exp, best.entry.key \o ext,
                       "fuzzy",
                       <<"Named", best.entry.key \o ext, "assumed to be",
                         exp \o ext>>))]
          ELSE st :
          best \in { Best(found, st.used, exp) } } : TRUE

RECURSIVE Pass4From(_, _, _, _, _)
Pass4From(st, found, ext, todo, i) ==
    IF i > Len(todo) THEN st
    ELSE CHOOSE r \in
             { Pass4From(s, found, ext, todo, i + 1) :
                 s \in { Pass4Step(st, found, todo[i], ext) } } : TRUE

Pass4(st, found, ext) == Pass4From(st, found, ext, st.remaining, 1)

\* NotFound with the loop 253-256 left out
NotFoundDropped(st, ext) == st

\* the not_found records (253-256)
NotFound(st, ext) ==
    [st EXCEPT !.matches = @ \o
        [i \in 1..Len(st.remaining) |->
            FileMatch(st.remaining[i], << >>, "not_found",
                      <<st.remaining[i] \o ext, "not found in submission">>)]]

\* extra = [f"{n}{file_ext}" for n in found if n not in used] (258)
\* Extra with the test `if n not in used` left out
ExtraUnfiltered(found, used, ext) ==
    [i \in 1..Len(found) |-> found[i].key \o ext]

Extra(found, used, ext) ==
    LET unused == SelectSeq(found, LAMBDA e : e.key \notin used)
    IN  [i \in 1..Len(unused) |-> unused[i].key \o ext]

\* _match_files: [matched, matches, extra] and the used set it ends with
_match_files(found, expected_names, ext) ==
    CHOOSE r \in
        { [matched |-> s5.matched, matches |-> s5.matches,
           extra |-> Extra(found, s5.used, ext), used |-> s5.used] :
          s5 \in { NotFound(s4, ext) :
          s4 \in { Pass4(s3, found, ext) :
          s3 \in { Pass3(s2, found, ext) :
          s2 \in { Pass2(s1, found, expected_names, ext) :
          s1 \in { Pass1(MatchInit(expected_names), found,
                         expected_names, ext) } } } } } } : TRUE

(***************************************************************************)
(* round(x, 2) on the exact value n/d of x, in cents.  Python rounds the   *)
(* binary float nearest to x: a value that is no decimal tie goes to the   *)
(* nearest cent; at a decimal tie (..5 thousandths) the float lies a hair  *)
(* above or below the tie (round(0.65 * 0.1, 2) = 0.07 but                 *)
(* round(0.70 * 1 / 4, 2) = 0.17), so both neighbours are outcomes.        *)
(***************************************************************************)
Round2(n, d) ==
    LET q == n \div d
        r == n % d
    IN  IF 2 * r < d THEN {q}
        ELSE IF 2 * r > d THEN {q + 1}
        ELSE {q, q + 1}

(***************************************************************************)
(* config.py: PROJECTS (32-142) and get_project (157-175).  The model      *)
(* holds the two assignments with the fewest components, 4 and 5.          *)
(***************************************************************************)
nMult == <<"M","u","l","t">>

nFill == <<"F","i","l","l">>

nMemory == <<"M","e","m","o","r","y">>

nCPU == <<"C","P","U">>

nComputer == <<"C","o","m","p","u","t","e","r">>

nHalfAdder == <<"H","a","l","f","A","d","d","e","r">>

nFullAdder == <<"F","u","l","l","A","d","d","e","r">>

nAdd16 == <<"A","d","d","1","6">>

nInc16 == <<"I","n","c","1","6">>

nALU == <<"A","L","U">>

nALUnostat == <<"A","L","U","-","n","o","s","t","a","t">>

\* the assignments modelled: 2, 4 and 5 of config.PROJECTS
AllProjectNums == {2, 4, 5}

\* the assignments the batches graded here are for
ProjectNums == {4, 5}

PROJECTS(num) ==
    IF num = 2
    THEN [file_ext |-> ExtHdl,
          chips    |-> << [name |-> nHalfAdder, points |-> 80],
                          [name |-> nFullAdder, points |-> 80],
                          [name |-> nAdd16,     points |-> 80],
                          [name |-> nInc16,     points |-> 80],
                          [name |-> nALU,       points |-> 300],
                          [name |-> nALUnostat, points |-> 380] >>,
          deps     |-> << [key |-> nHalfAdder, value |-> << >>],
                          [key |-> nFullAdder, value |-> <<nHalfAdder>>],
                          [key |-> nAdd16,     value |-> <<nHalfAdder, nFullAdder>>],
                          [key |-> nInc16,     value |-> <<nAdd16>>],
                          [key |-> nALU,       value |-> <<nAdd16, nInc16>>],
                          [key |-> nALUnostat, value |-> <<nAdd16, nInc16>>] >>]
    ELSE IF num = 4
    THEN [file_ext |-> ExtAsm,
          chips    |-> << [name |-> nMult, points |-> 500],
                          [name |-> nFill, points |-> 500] >>,
          deps     |-> << [key |-> nMult, value |-> << >>],
                          [key |-> nFill, value |-> << >>] >>]
    ELSE [file_ext |-> ExtHdl,
          chips    |-> << [name |-> nMemory,   points |-> 300],
                          [name |-> nCPU,      points |-> 400],
                          [name |-> nComputer, points |-> 300] >>,
          deps     |-> << [key |-> nMemory,   value |-> << >>],
                          [key |-> nCPU,      value |-> << >>],
                          [key |-> nComputer, value |-> <<nMemory, nCPU>>] >>]

RECURSIVE SumPoints(_, _)
SumPoints(chips, i) ==
    IF i > Len(chips) THEN 0 ELSE chips[i].points + SumPoints(chips, i + 1)

get_project(num) ==
    LET proj == PROJECTS(num)
    IN  [number       |-> num,
         file_ext     |-> proj.file_ext,
         deps         |-> proj.deps,
         chip_names   |-> [i \in 1..Len(proj.chips) |-> proj.chips[i].name],
         chip_points  |-> [i \in 1..Len(proj.chips) |->
                              [key |-> proj.chips[i].name,
                               value |-> proj.chips[i].points]],
         total_points |-> CHOOSE t \in Round2(SumPoints(proj.chips, 1), 1) : TRUE]

(***************************************************************************)
(* ChipResult (grading_engine.py 37-49)                                    *)
(***************************************************************************)
ChipResult(name, passed, points, max_points, error_type, error_msg, fail_line, expected, actual, total_tests, passed_tests) ==
    [name |-> name, passed |-> passed, points |-> points,
     max_points |-> max_points, error_type |-> error_type,
     error_msg |-> error_msg, fail_line |-> fail_line,
     expected |-> expected, actual |-> actual,
     total_tests |-> total_tests, passed_tests |-> passed_tests]

\* the dataclass defaults of the fields after error_msg
ChipResult6(name, passed, points, max_points, error_type, error_msg) ==
    ChipResult(name, passed, points, max_points, error_type, error_msg,
               0, << >>, << >>, 0, 0)

(***************************************************************************)
(* _partial_credit (grading_engine.py 318-341).  A trace file is           *)
(* [exists, lines]: lines is what read_text().splitlines() gives.          *)
(***************************************************************************)
PartialZero == [pts |-> 0, passed |-> 0, total |-> 0, fl |-> 0,
                fe |-> << >>, fa |-> << >>]

\* CompareFrom with the two strip() calls of 334-335 left out
RECURSIVE CompareFromUntrimmed(_, _, _, _)
CompareFromUntrimmed(cmp, out, i, acc) ==
    IF i >= Len(cmp) THEN acc
    ELSE LET c == cmp[i + 1]
             o == IF i < Len(out) THEN out[i + 1] ELSE << >>
         IN  CHOOSE r \in
                 { CompareFromUntrimmed(cmp, out, i + 1, a) :
                     a \in { IF c = o THEN [acc EXCEPT !.passed = @ + 1]
                             ELSE IF acc.fl = 0
                                  THEN [acc EXCEPT !.fl = i, !.fe = c, !.fa = o]
                                  ELSE acc } } : TRUE

\* CompareFrom with the test `elif fl == 0` left out: every mismatch
\* overwrites the one recorded
RECURSIVE CompareFromLast(_, _, _, _)
CompareFromLast(cmp, out, i, acc) ==
    IF i >= Len(cmp) THEN acc
    ELSE LET c == Strip(cmp[i + 1])
             o == IF i < Len(out) THEN Strip(out[i + 1]) ELSE << >>
         IN  CHOOSE r \in
                 { CompareFromLast(cmp, out, i + 1, a) :
                     a \in { IF c = o THEN [acc EXCEPT !.passed = @ + 1]
                             ELSE [acc EXCEPT !.fl = i, !.fe = c, !.fa = o] } } : TRUE

\* the loop 333-339 from line index i on (i is Python's index: line i is
\* lines[i + 1] here); acc is [passed, fl, fe, fa]
RECURSIVE CompareFrom(_, _, _, _)
CompareFrom(cmp, out, i, acc) ==
    IF i >= Len(cmp) THEN acc
    ELSE LET c == Strip(cmp[i + 1])
             o == IF i < Len(out) THEN Strip(out[i + 1]) ELSE << >>
         IN  CHOOSE r \in
                 { CompareFrom(cmp, out, i + 1, a) :
                     a \in { IF c = o THEN [acc EXCEPT !.passed = @ + 1]
                             ELSE IF acc.fl = 0
                                  THEN [acc EXCEPT !.fl = i, !.fe = c, !.fa = o]
                                  ELSE acc } } : TRUE

\* the set of results _partial_credit can return (one, but for a rounding tie)
_partial_credit(cmpFile, outFile, max_pts) ==
    IF ~cmpFile.exists \/ ~outFile.exists THEN {PartialZero}
    ELSE IF Len(cmpFile.lines) < 2 THEN {PartialZero}
    ELSE LET total == Len(cmpFile.lines) - 1
             acc   == CompareFrom(cmpFile.lines, outFile.lines, 1,
                          [passed |-> 0, fl |-> 0, fe |-> << >>, fa |-> << >>])
         IN  { [pts |-> p, passed |-> acc.passed, total |-> total,
                fl |-> acc.fl, fe |-> acc.fe, fa |-> acc.fa] :
               p \in Round2(max_pts * acc.passed, total) }

(***************************************************************************)
(* The inspection of the resolved source: _check_builtin (292-297) and     *)
(* _has_work (300-315).  A source file is [readable, text]: read_text      *)
(* raises when the file cannot be read and both functions then return      *)
(* False.                                                                  *)
(***************************************************************************)
SourceFile(text) == [readable |-> TRUE, text |-> text]

Unreadable == [readable |-> FALSE, text |-> << >>]

\* what \w matches
IsWord(c) ==
    \/ \E i \in 1..Len(UpperChars) : c = UpperChars[i] \/ c = LowerChars[i]
    \/ IsDigit(c)
    \/ c = "_"

\* \b at the position before s[i]
WordBoundary(s, i) ==
    (i > 1 /\ IsWord(s[i - 1])) # (i <= Len(s) /\ IsWord(s[i]))

\* the least index >= i at which needle starts in s, 0 if there is none
RECURSIVE Find(_, _, _)
Find(s, needle, i) ==
    IF i + Len(needle) - 1 > Len(s) THEN 0
    ELSE IF SubSeq(s, i, i + Len(needle) - 1) = needle THEN i
    ELSE Find(s, needle, i + 1)

kwBuiltin == <<"B","U","I","L","T","I","N">>

\* _check_builtin with re.IGNORECASE left out
_check_builtin_cased(src) ==
    /\ src.readable
    /\ \E i \in 1..(Len(src.text) - Len(kwBuiltin) + 1) :
           /\ SubSeq(src.text, i, i + Len(kwBuiltin) - 1) = kwBuiltin
           /\ WordBoundary(src.text, i)
           /\ WordBoundary(src.text, i + Len(kwBuiltin))

\* re.search(r'\bBUILTIN\b', text, re.IGNORECASE)
_check_builtin(src) ==
    /\ src.readable
    /\ \E i \in 1..(Len(src.text) - Len(kwBuiltin) + 1) :
           /\ Lower(SubSeq(src.text, i, i + Len(kwBuiltin) - 1))
                  = Lower(kwBuiltin)
           /\ WordBoundary(src.text, i)
           /\ WordBoundary(src.text, i + Len(kwBuiltin))

kwParts == <<"P","A","R","T","S",":">>

kwClose == <<"}">>

kwLineComment == <<"/","/">>

kwBlockOpen == <<"/","*">>

kwBlockClose == <<"*","/">>

\* whether r'PARTS:\s*(.*?)(?:\})' with re.DOTALL matches somewhere: the
\* leftmost "PARTS:" is followed, anywhere after it, by a closing brace
HasParts(t) ==
    /\ Find(t, kwParts, 1) # 0
    /\ Find(t, kwClose, Find(t, kwParts, 1) + Len(kwParts)) # 0

\* m.group(1): from after the whitespace that follows "PARTS:" up to the
\* first closing brace
PartsGroup(t) ==
    LET q == SkipSpaces(t, Find(t, kwParts, 1) + Len(kwParts))
    IN  SubSeq(t, q, Find(t, kwClose, q) - 1)

\* the first index >= i of s that holds a line end (Len(s)+1 if none)
RECURSIVE LineEnd(_, _)
LineEnd(s, i) ==
    IF i <= Len(s) /\ s[i] # "\n" THEN LineEnd(s, i + 1) ELSE i

\* re.sub(r'//.*', '', s) from index i on
RECURSIVE SubLineComments(_, _)
SubLineComments(s, i) ==
    IF i > Len(s) THEN << >>
    ELSE IF i < Len(s) /\ SubSeq(s, i, i + 1) = kwLineComment
    THEN SubLineComments(s, LineEnd(s, i))
    ELSE <<s[i]>> \o SubLineComments(s, i + 1)

\* re.sub(r'/\*.*?\*/', '', s, flags=re.DOTALL) from index i on
RECURSIVE SubBlockComments(_, _)
SubBlockComments(s, i) ==
    IF i > Len(s) THEN << >>
    ELSE IF /\ i < Len(s)
            /\ SubSeq(s, i, i + 1) = kwBlockOpen
            /\ Find(s, kwBlockClose, i + 2) # 0
    THEN SubBlockComments(s, Find(s, kwBlockClose, i + 2) + 2)
    ELSE <<s[i]>> \o SubBlockComments(s, i + 1)

\* str.splitlines() from index i on
RECURSIVE SplitLines(_, _)
SplitLines(s, i) ==
    IF i > Len(s) THEN << >>
    ELSE <<SubSeq(s, i, LineEnd(s, i) - 1)>> \o SplitLines(s, LineEnd(s, i) + 1)

\* the lines 310-311 keep: not blank and not starting with //
AsmLines(t) ==
    SelectSeq(SplitLines(t, 1),
              LAMBDA l : /\ Len(Strip(l)) > 0
                         /\ ~StartsWith(Strip(l), kwLineComment))

\* _has_work with the comments of the PARTS section not removed
_has_work_raw(src, ext) ==
    IF ~src.readable THEN FALSE
    ELSE IF ext = ExtHdl
    THEN HasParts(src.text) /\ Len(Strip(PartsGroup(src.text))) > 0
    ELSE IF ext = ExtAsm
    THEN Len(AsmLines(src.text)) > 2
    ELSE FALSE

_has_work(src, ext) ==
    IF ~src.readable THEN FALSE
    ELSE IF ext = ExtHdl
    THEN /\ HasParts(src.text)
         /\ Len(Strip(SubBlockComments(
                    SubLineComments(PartsGroup(src.text), 1), 1))) > 0
    ELSE IF ext = ExtAsm
    THEN Len(AsmLines(src.text)) > 2
    ELSE FALSE

(***************************************************************************)
(* The simulator's output as _run_one reads it (393-403)                   *)
(***************************************************************************)
\* out = f"{r.stdout}\n{r.stderr}".strip()
Combined(stdout, stderr) == Strip(stdout \o <<"\n">> \o stderr)

kwSuccess == <<"C","o","m","p","a","r","i","s","o","n"," ","e","n","d","e","d"," ","s","u","c","c","e","s","s","f","u","l","l","y">>

kwFailure == <<"o","m","p","a","r","i","s","o","n"," ","f","a","i","l","u","r","e"," ","a","t"," ","l","i","n","e"," ">>

\* "Comparison ended successfully" in out (the second test of 395-396
\* looks for a longer string that holds this one)
HasSuccess(out) == Contains(out, kwSuccess)

\* re.search(r'[Cc]omparison failure at line (\d+)', out)
HasFailure(out) ==
    \E i \in 1..Len(out) :
        /\ out[i] \in {"C", "c"}
        /\ i + Len(kwFailure) + 1 <= Len(out)
        /\ SubSeq(out, i + 1, i + Len(kwFailure)) = kwFailure
        /\ IsDigit(out[i + Len(kwFailure) + 1])

\* str(e)[:150]
MsgLimit == 150

Truncated(msg) ==
    IF Len(msg) > MsgLimit THEN SubSeq(msg, 1, MsgLimit) ELSE msg

(***************************************************************************)
(* _run_one (grading_engine.py 358-423).  env is what the call meets       *)
(* outside the program:                                                    *)
(*   source   the resolved source file matched[chip]                       *)
(*   tst      whether <chip>.tst exists in the test directory              *)
(*   mkdtemp  whether tempfile.mkdtemp succeeds (379)                      *)
(*   copy     whether the copies into the sandbox succeed (381-388)        *)
(*   proc     how subprocess.run ends: "exit", "timeout" (TimeoutExpired)  *)
(*            or "error" (any other exception)                             *)
(*   stdout, stderr  what the simulator wrote                              *)
(*   emsg     str(e) of the exception of a failing copy or run             *)
(*   cmp      the comparison trace <chip>.cmp of the test directory        *)
(*   out      the output trace <chip>.out the simulator left               *)
(* A call ends in [result, raised, mk, rm, sim, child]: the ChipResult     *)
(* returned (when raised is FALSE), whether an exception left the          *)
(* function, whether the sandbox was made, whether it was removed, whether *)
(* subprocess.run was called, and what became of the child process:        *)
(* "none" (never started), "exited", or "killed" (subprocess.run kills     *)
(* and reaps the child before it raises TimeoutExpired).                   *)
(***************************************************************************)
Ended(result, mk, rm, sim, child) ==
    [result |-> result, raised |-> FALSE, mk |-> mk, rm |-> rm, sim |-> sim,
     child |-> child]

NoResult == ChipResult6(<< >>, FALSE, 0, 0, "", << >>)

Raised(mk, rm, sim) ==
    [result |-> NoResult, raised |-> TRUE, mk |-> mk, rm |-> rm, sim |-> sim,
     child |-> "none"]

\* SyntaxCredit with the factor 1.5 written for 0.15
SyntaxCreditTenfold(mx) == Round2(mx * 15, 10)

\* SyntaxCredit with the factor of the timeout branch
SyntaxCreditAsTimeout(mx) == Round2(mx * 1, 10)

\* the effort credit of a syntax error (412): round(mx * 0.15, 2)
SyntaxCredit(mx) == Round2(mx * 15, 100)

\* TimeoutCredit with the factor of the syntax branch
TimeoutCreditAsSyntax(mx) == Round2(mx * 15, 100)

\* the effort credit of a timeout (417): round(mx * 0.1, 2)
TimeoutCredit(mx) == Round2(mx * 1, 10)

\* pts.get(chip, 1.0)
MaxPoints(project, chip) ==
    IF DictHas(project.chip_points, chip)
    THEN DictGet(project.chip_points, chip) ELSE 100

\* TraceTests counting the header line too
TraceTestsWithHeader(cmp) ==
    IF cmp.exists THEN Len(cmp.lines) ELSE 0

\* tt of line 397-398
TraceTests(cmp) ==
    IF cmp.exists THEN Max(0, Len(cmp.lines) - 1) ELSE 0

msgTstNotFound == <<".","t","s","t"," ","n","o","t"," ","f","o","u","n","d">>

\* the branches on the simulator's output (393-414)
OnOutput(chip, mx, work, env) ==
    LET out == Combined(env.stdout, env.stderr)
    IN  IF HasSuccess(out)
        THEN { ChipResult(chip, TRUE, mx, mx, "pass", << >>,
                          0, << >>, << >>,
                          TraceTests(env.cmp), TraceTests(env.cmp)) }
        ELSE IF HasFailure(out)
        THEN { ChipResult(chip, FALSE, r.pts, mx, "mismatch",
                          <<r.passed, "/", r.total, "tests passed", r.fl>>,
                          r.fl, r.fe, r.fa, r.total, r.passed) :
               r \in _partial_credit(env.cmp, env.out, mx) }
        ELSE IF work
        THEN { ChipResult6(chip, FALSE, p, mx, "syntax",
                           <<"Syntax error (effort credit)">>) :
               p \in SyntaxCredit(mx) }
        ELSE { ChipResult6(chip, FALSE, 0, mx, "syntax", <<"clean_err">>) }

\* InSandbox with the sandbox removed at the end of the try block and not
\* in a finally: an exception while copying leaves it behind
InSandboxNoFinally(chip, mx, work, env) ==
    IF ~env.copy
    THEN { Ended(ChipResult6(chip, FALSE, 0, mx, "internal",
                             Truncated(env.emsg)),
                 TRUE, FALSE, FALSE, "none") }
    ELSE { Ended(r, TRUE, TRUE, TRUE, "exited") :
           r \in OnOutput(chip, mx, work, env) }

\* the try block 380-423, the sandbox made
InSandbox(chip, mx, work, env) ==
    IF ~env.copy
    THEN { Ended(ChipResult6(chip, FALSE, 0, mx, "internal",
                             Truncated(env.emsg)),
                 TRUE, TRUE, FALSE, "none") }
    ELSE IF env.proc = "timeout"
    THEN { Ended(ChipResult6(chip, FALSE, p, mx, "timeout",
                             <<"Timed out (possible loop)">>),
                 TRUE, TRUE, TRUE, "killed") :
           p \in IF work THEN TimeoutCredit(mx) ELSE {0} }
    ELSE IF env.proc = "error"
    THEN { Ended(ChipResult6(chip, FALSE, 0, mx, "internal",
                             Truncated(env.emsg)),
                 TRUE, TRUE, TRUE, "none") }
    ELSE { Ended(r, TRUE, TRUE, TRUE, "exited") :
           r \in OnOutput(chip, mx, work, env) }

\* _run_one with the test of line 365 left out
_run_one_unchecked(chip, matched, project, env) ==
    InSandbox(chip, MaxPoints(project, chip),
              _has_work(env.source, project.file_ext), env)

_run_one(chip, matched, project, env) ==
    LET mx == MaxPoints(project, chip)
    IN  IF ~DictHas(matched, chip)
        THEN { Ended(ChipResult6(chip, FALSE, 0, mx, "missing",
                                 <<"Not submitted">>),
                     FALSE, FALSE, FALSE, "none") }
        ELSE IF project.file_ext = ExtHdl /\ _check_builtin(env.source)
        THEN { Ended(ChipResult6(chip, FALSE, 0, mx, "builtin",
                                 <<"Uses BUILTIN (not allowed)">>),
                     FALSE, FALSE, FALSE, "none") }
        ELSE IF ~env.tst
        THEN { Ended(ChipResult6(chip, FALSE, 0, mx, "internal",
                                 chip \o msgTstNotFound),
                     FALSE, FALSE, FALSE, "none") }
        ELSE IF ~env.mkdtemp
        THEN { Raised(FALSE, FALSE, FALSE) }
        ELSE InSandbox(chip, mx, _has_work(env.source, project.file_ext), env)

(***************************************************************************)
(* _cascades (grading_engine.py 426-438)                                   *)
(***************************************************************************)
\* deps.get(name, [])
DepsOf(deps, name) == IF DictHas(deps, name) THEN DictGet(deps, name) ELSE << >>

\* Failed with the test `if not c.passed` left out
FailedAll(results) == { results[i].name : i \in 1..Len(results) }

\* failed = {c.name for c in results if not c.passed}
Failed(results) ==
    { results[i].name : i \in { j \in 1..Len(results) : ~results[j].passed } }

RECURSIVE CascadesFrom(_, _, _)
CascadesFrom(results, deps, i) ==
    IF i > Len(results) THEN << >>
    ELSE LET c  == results[i]
             bd == SelectSeq(DepsOf(deps, c.name),
                             LAMBDA d : d \in Failed(results))
         IN  (IF c.name \in Failed(results) /\ Len(bd) > 0
              THEN << <<c.name, "likely fails because", bd, "also broken">> >>
              ELSE << >>)
             \o CascadesFrom(results, deps, i + 1)

_cascades(results, deps) == CascadesFrom(results, deps, 1)

(***************************************************************************)
(* check_zip_naming (grading_engine.py 90-170)                             *)
(***************************************************************************)
\* the first index >= i of s that holds whitespace (Len(s)+1 if none)
RECURSIVE SkipWord(_, _)
SkipWord(s, i) ==
    IF i <= Len(s) /\ ~IsSpace(s[i]) THEN SkipWord(s, i + 1) ELSE i

\* str.split() from index i on: the maximal runs without whitespace
RECURSIVE SplitFrom(_, _)
SplitFrom(s, i) ==
    LET a == SkipSpaces(s, i)
        b == SkipWord(s, a)
    IN  IF a > Len(s) THEN << >>
        ELSE <<SubSeq(s, a, b - 1)>> \o SplitFrom(s, b)

\* str(n) of a natural number
RECURSIVE Str(_)
Str(n) ==
    LET d == <<"0","1","2","3","4","5","6","7","8","9">>
    IN  IF n < 10 THEN <<d[n + 1]>> ELSE Str(n \div 10) \o <<d[(n % 10) + 1]>>

extZip == <<".","z","i","p">>

\* the fixed part of expected_patterns (122-131)
ZipTag(num) ==
    IF num = 1 THEN <<"H","W","1","_","G","a","t","e","s">>
    ELSE IF num = 2 THEN <<"H","W","2","_","A","L","U">>
    ELSE IF num = 3 THEN <<"H","W","3","_","M","e","m","o","r","y">>
    ELSE IF num = 4 THEN <<"H","W","4","_","A","s","s","e","m","b","l","y">>
    ELSE IF num = 5 THEN <<"H","W","5","_","C","o","m","p","u","t","e","r">>
    ELSE <<"H","W">> \o Str(num)

\* proj.get("zip_pattern", "") (97; config.py 38, 74, 96, 119, 131)
zip_pattern(num) == ZipTag(num) \o <<"_","\\","w","+">>

\* ZipNaming (grading_engine.py 28-33)
ZipNaming(filename, ok, pattern, issue) ==
    [original_filename |-> filename, is_correct |-> ok,
     expected_pattern |-> pattern, issue |-> issue]

phUnknown == <<"U","n","k","n","o","w","n">>

phStudent == <<"S","t","u","d","e","n","t">>

\* first and last of 110-119
NameTokens(student_name) ==
    LET name_parts == SplitFrom(Strip(student_name), 1)
    IN  IF Len(name_parts) >= 2
        THEN [first |-> name_parts[1], last |-> name_parts[Len(name_parts)]]
        ELSE IF Len(name_parts) = 1
        THEN [first |-> name_parts[1], last |-> << >>]
        ELSE [first |-> phUnknown, last |-> phStudent]

\* expected (130-131)
ExpectedName(num, tok) == ZipTag(num) \o <<"_">> \o tok.first \o <<"_">> \o tok.last

\* re.search(rf'(?:hw|homework)\s*{project_num}', name, re.IGNORECASE) (140-142)
hw_num_present(name, num) ==
    \E i \in 1..Len(name) :
        \E w \in { <<"h","w">>, <<"h","o","m","e","w","o","r","k">> } :
            /\ i + Len(w) - 1 <= Len(name)
            /\ Lower(SubSeq(name, i, i + Len(w) - 1)) = w
            /\ LET k == SkipSpaces(name, i + Len(w))
               IN  /\ k + Len(Str(num)) - 1 <= Len(name)
                   /\ SubSeq(name, k, k + Len(Str(num)) - 1) = Str(num)

\* name_present with the last name never looked at
name_present_first_only(tok, name) == Contains(Lower(name), Lower(tok.first))

\* name_present (145-149)
name_present(tok, name) ==
    IF tok.last # << >>
    THEN \/ Contains(Lower(name), Lower(tok.first))
         \/ Contains(Lower(name), Lower(tok.last))
    ELSE Contains(Lower(name), Lower(tok.first))

msgNoFilename == <<"No filename available">>

msgNoNumber == <<"missing homework number">>

msgNoName == <<"missing your name">>

\* check_zip_naming(filename, student_name, project_num); the issue text is
\* kept as its parts: the file name, the expected name and the list of issues
check_zip_naming(filename, student_name, project_num) ==
    LET name_no_ext == IF EndsWith(Lower(filename), extZip)
                       THEN SubSeq(filename, 1, Len(filename) - 4)
                       ELSE filename
        tok      == NameTokens(student_name)
        expected == ExpectedName(project_num, tok)
        issues   == (IF hw_num_present(name_no_ext, project_num)
                     THEN << >> ELSE <<msgNoNumber>>)
                    \o (IF name_present(tok, name_no_ext)
                        THEN << >> ELSE <<msgNoName>>)
    IN  IF filename = << >>
        THEN ZipNaming(<< >>, FALSE, zip_pattern(project_num), msgNoFilename)
        ELSE IF name_no_ext = expected
        THEN ZipNaming(filename, TRUE, expected \o extZip, << >>)
        ELSE ZipNaming(filename, FALSE, expected \o extZip,
                       <<"Zip named", filename, "should be",
                         expected \o extZip, issues>>)

(***************************************************************************)
(* The world outside the program: what the archives hold and what a        *)
(* call of _run_one meets.                                                 *)
(***************************************************************************)
\* the archives a submission may hold, by assignment
Archives(num) ==
    IF num = 5
    THEN { << [dir |-> <<"s","r","c">>, file |-> <<"c","p","u",".","H","D","L">>],
              [dir |-> <<"_","_","M","A","C","O","S","X">>, file |-> <<"C","P","U",".","h","d","l">>],
              [dir |-> <<>>, file |-> <<".","M","e","m","o","r","y",".","h","d","l">>],
              [dir |-> <<>>, file |-> <<"M","e","m","o","r","y",".","h","d","l",".","h","d","l">>] >>,
           << [dir |-> <<>>, file |-> <<"C","o","m","p","u","t","e","r"," ","(","1",")",".","h","d","l">>],
              [dir |-> <<>>, file |-> <<"n","o","t","e","s",".","h","d","l">>],
              [dir |-> <<>>, file |-> <<"M","e","m","o","r","y",".","t","x","t">>] >>,
           << [dir |-> <<>>, file |-> <<"r","e","a","d","m","e",".","t","x","t">>],
              [dir |-> <<>>, file |-> <<".","h","d","l">>] >> }
    ELSE { << [dir |-> <<>>, file |-> <<"M","u","l","t",".","a","s","m">>],
              [dir |-> <<>>, file |-> <<"F","i","l","l",".","a","s","m">>] >>,
           << [dir |-> <<"a">>, file |-> <<"F","i","l","l","_","c","o","p","y",".","a","s","m">>],
              [dir |-> <<"b">>, file |-> <<"F","i","l","l","_","c","o","p","y",".","a","s","m">>],
              [dir |-> <<>>, file |-> <<"M","u","l","t",".","h","d","l">>] >>,
           << [dir |-> <<>>, file |-> <<"M","u","l","t",".","h","d","l">>] >> }

Absent == [exists |-> FALSE, lines |-> << >>]

File(lines) == [exists |-> TRUE, lines |-> lines]

Hdr == <<"|","o","u","t","|">>

L0 == <<"|","0","|">>

L1 == <<"|","1","|">>

L1pad == <<" ","|","1","|"," ">>

CmpFiles == { Absent, File(<<Hdr>>), File(<<Hdr, L1, L1>>) }

OutFiles == { Absent, File(<<Hdr, L1, L1>>), File(<<Hdr, L1pad, L0>>) }

\* a chip with a part
srcHdlWork == SourceFile(<<"C","H","I","P"," ","N","o","t"," ","{","\n","P","A","R","T","S",":","\n","N","a","n","d","(","a","=","i","n",",","b","=","i","n",",","o","u","t","=","o","u","t",")",";","\n","}">>)

\* a chip whose PARTS section holds a comment only
srcHdlStub == SourceFile(<<"C","H","I","P"," ","N","o","t"," ","{","\n","P","A","R","T","S",":","\n","/","/"," ","t","o","d","o","\n","}">>)

\* a chip that names the reserved word, in mixed case
srcHdlBuiltin == SourceFile(<<"C","H","I","P"," ","N","o","t"," ","{","\n"," "," ","B","u","i","l","t","I","n"," ","N","o","t",";","\n","}">>)

\* a chip that holds the letters of the reserved word inside a longer word
srcHdlNoToken == SourceFile(<<"C","H","I","P"," ","N","o","t"," ","{","\n","P","A","R","T","S",":","\n","B","U","I","L","T","I","N","S","(","a","=","i","n",")",";","\n","}">>)

\* a program of four instructions
srcAsmWork == SourceFile(<<"@","0","\n","D","=","M","\n","@","1","\n","M","=","D">>)

\* a program of one instruction
srcAsmStub == SourceFile(<<"/","/"," ","M","u","l","t","\n","\n","@","0">>)

\* a program whose comment names the reserved word
srcAsmBuiltin == SourceFile(<<"/","/"," ","B","U","I","L","T","I","N","\n","@","0","\n","D","=","M","\n","@","1">>)

outSuccess == <<"E","n","d"," ","o","f"," ","s","c","r","i","p","t"," ","-"," ","C","o","m","p","a","r","i","s","o","n"," ","e","n","d","e","d"," ","s","u","c","c","e","s","s","f","u","l","l","y">>

outFailure == <<"C","o","m","p","a","r","i","s","o","n"," ","f","a","i","l","u","r","e"," ","a","t"," ","l","i","n","e"," ","3">>

outFailureLower == <<"c","o","m","p","a","r","i","s","o","n"," ","f","a","i","l","u","r","e"," ","a","t"," ","l","i","n","e"," ","1","2">>

outAlmost == <<"C","o","m","p","a","r","i","s","o","n"," ","f","a","i","l","u","r","e"," ","a","t"," ","l","i","n","e">>

outSyntax == <<"I","n"," ","H","D","L"," ","f","i","l","e"," ","N","o","t",".","h","d","l",","," ","L","i","n","e"," ","3",","," ","'",";","'"," ","e","x","p","e","c","t","e","d">>

\* str(e) of an exception: a short text, and one longer than MsgLimit
msgShort == <<"E","r","r","n","o"," ","2">>

msgLong == [i \in 1..(MsgLimit + 50) |-> "x"]

WorkSource(ext) == IF ext = ExtAsm THEN srcAsmWork ELSE srcHdlWork

StubSource(ext) == IF ext = ExtAsm THEN srcAsmStub ELSE srcHdlStub

DefaultEnv ==
    [source |-> srcHdlWork, tst |-> TRUE, mkdtemp |-> TRUE, copy |-> TRUE,
     proc |-> "exit", stdout |-> outSyntax, stderr |-> << >>,
     emsg |-> msgShort, cmp |-> Absent, out |-> Absent]

\* what the runs of a batch for files of extension ext meet
RunEnvs(ext) ==
    { [DefaultEnv EXCEPT !.source = s, !.proc = p] :
        s \in {WorkSource(ext), StubSource(ext)},
        p \in {"exit", "timeout", "error"} }
    \cup
    { [DefaultEnv EXCEPT !.source = WorkSource(ext), !.stdout = outSuccess,
                         !.cmp = c] : c \in CmpFiles }
    \cup
    { [DefaultEnv EXCEPT !.source = WorkSource(ext), !.stdout = outFailure,
                         !.cmp = c, !.out = o] :
        c \in CmpFiles, o \in OutFiles }
    \cup
    { [DefaultEnv EXCEPT !.source = StubSource(ext), !.stdout = outSuccess,
                         !.stderr = outFailureLower,
                         !.cmp = File(<<Hdr, L1, L1>>),
                         !.out = File(<<Hdr, L1pad, L0>>)] }
    \cup
    { [DefaultEnv EXCEPT !.source = srcHdlBuiltin, !.stdout = outSuccess],
      [DefaultEnv EXCEPT !.source = WorkSource(ext), !.tst = FALSE],
      [DefaultEnv EXCEPT !.source = WorkSource(ext), !.mkdtemp = FALSE],
      [DefaultEnv EXCEPT !.source = WorkSource(ext), !.copy = FALSE] }

\* what a call of _run_one on its own meets
AllSources ==
    { srcHdlWork, srcHdlStub, srcHdlBuiltin, srcHdlNoToken,
      srcAsmWork, srcAsmStub, srcAsmBuiltin, Unreadable }

AllCmpFiles ==
    CmpFiles \cup { File(<< >>), File(<<Hdr, L1, L0, L1, L1>>) }

AllOutFiles ==
    OutFiles \cup { File(<<Hdr, L1>>), File(<<Hdr, L1, L1, L1pad, L1>>) }

AllRunEnvs ==
    { e \in { [DefaultEnv EXCEPT !.source = s, !.tst = t, !.mkdtemp = m,
                                 !.copy = c, !.proc = p, !.emsg = g] :
                s \in AllSources, t \in BOOLEAN, m \in BOOLEAN,
                c \in BOOLEAN, p \in {"exit", "timeout", "error"},
                g \in {msgShort, msgLong} } :
        /\ Cardinality({ x \in {e.tst, e.mkdtemp, e.copy} : ~x }) <= 1
        /\ (e.source.readable \/ ~e.copy)
        /\ (e.emsg = msgLong => (~e.copy \/ e.proc = "error")) }
    \cup
    { [DefaultEnv EXCEPT !.source = s, !.stdout = so, !.stderr = se,
                         !.cmp = c, !.out = o] :
        s \in {srcHdlWork, srcHdlStub, srcAsmWork, srcAsmStub},
        so \in {outSuccess, outFailure, outAlmost, outSyntax},
        se \in {<< >>, outFailureLower},
        c \in AllCmpFiles, o \in AllOutFiles }

(***************************************************************************)
(* State.                                                                  *)
(*  The batch (bot.py _start_grading 299-365) grades the submissions       *)
(*  1..NumSubs one after the other; submission i is user i.                *)
(*   project   the assignment number of the batch (ctx.user_data)          *)
(*   idx       the submission the for loop is at                           *)
(*   pc        "loop"    top of the for loop                               *)
(*             "extract" grade_student entered, before _extract_zip (451)  *)
(*             "grade"   inside the try, before the no-files test (453)    *)
(*             "run"     at the for loop over the chips (489)              *)
(*             "report"  grade_student returned result to the batch (336)  *)
(*             "except"  an exception reached the batch's handler (353)    *)
(*             "done"    the for loop is over (367)                        *)
(*   exc       where the exception at "except" was raised                  *)
(*   arch      how the archive of the submission opened                    *)
(*   dirs      the temporary directories that exist                        *)
(*   raw       the found mapping of _extract_zip                           *)
(*   matched   the matched mapping of _match_files                         *)
(*   result    the GradingResult of the submission                         *)
(*   ci        the index of the next chip to run                           *)
(*   sims      the chips of the submission the simulator was started for   *)
(*   boxes     the chips of the submission a sandbox was made for          *)
(*   raised    the submissions whose grade_student raised, with the place  *)
(*   queue     the batch's queue of review entries                         *)
(*  The matcher on its own (_match_files on arbitrary inputs):             *)
(*   mpc       the pass to run next                                        *)
(*   mfound    the found mapping given                                     *)
(*   mexpected the expected names given                                    *)
(*   mst       the matcher's locals: matched, matches, used, remaining,    *)
(*             extra                                                       *)
(*  A function applied on its own (_run_one, _cascades):                   *)
(*   upc       "off", "call" before the call, "ret" after it               *)
(*   uin       the arguments                                               *)
(*   uout      what the call gave                                          *)
(*  Calls of grade_student in progress at the same time:                   *)
(*   calls     the locals of each call and where it stands                 *)
(*   fs        the temporary directories that exist, with what they hold   *)
(*  The review flow (bot.py _show_next, review_action, type_grade):        *)
(*   user_data ctx.user_data: queue, idx, edit_rid                         *)
(*   db        the results table: status and submitted grade of each row   *)
(*   sent      the grades moodle.submit_grade saved, in order              *)
(*   chat      the messages of the chat that carry an inline keyboard      *)
(*   conv      the state of the ConversationHandler                        *)
(***************************************************************************)
VARIABLES project, idx, pc, exc, arch, dirs, raw, matched, result, ci,
          sims, boxes, raised, queue, mpc, mfound, mexpected, mst,
          upc, uin, uout, calls, fs, user_data, db, sent, chat, conv

pvars == << project, idx, pc, exc, arch, dirs, raw, matched, result, ci,
            sims, boxes, raised, queue >>

mvars == << mpc, mfound, mexpected, mst >>

uvars == << upc, uin, uout >>

cvars == << calls, fs >>

rvars == << user_data, db, sent, chat, conv >>

vars == << pvars, mvars, uvars, cvars, rvars >>

\* the number of submissions of the batch
NumSubs == 2

\* the most files a found mapping given to the matcher alone holds
MaxFound == 2

Project == get_project(project)

\* tempfile.mkdtemp(prefix="n2t_") of submission i
TmpDir(i) == [kind |-> "n2t", sub |-> i, chip |-> << >>]

\* tempfile.mkdtemp(prefix=f"c_{chip}_") of submission i
Sandbox(i, chip) == [kind |-> "c", sub |-> i, chip |-> chip]

\* GradingResult(...) (453-456)
GradingResult(uid, proj) ==
    [user_id |-> uid, project_num |-> proj.number, chips |-> << >>,
     total_earned |-> 0, total_possible |-> proj.total_points,
     warnings |-> << >>, file_matches |-> << >>, extra_files |-> << >>,
     zip_naming |-> "None"]

NoGrading ==
    [user_id |-> 0, project_num |-> 0, chips |-> << >>,
     total_earned |-> 0, total_possible |-> 0,
     warnings |-> << >>, file_matches |-> << >>, extra_files |-> << >>,
     zip_naming |-> "None"]

\* SetNaming with a wrongly named archive costing the total a point
SetNamingPenalised(res, filename, student_name) ==
    LET zn == check_zip_naming(filename, student_name, res.project_num)
    IN  [res EXCEPT !.zip_naming = zn,
                    !.total_earned = IF zn.is_correct THEN @ ELSE @ - 100]

\* result.zip_naming = check_zip_naming(...) (459-460)
SetNaming(res, filename, student_name) ==
    [res EXCEPT !.zip_naming =
        check_zip_naming(filename, student_name, res.project_num)]

\* sub.full_name and archive_file.filename of submission i (bot.py 305-334)
FullName(i) ==
    IF i = 1 THEN <<"A","n","n"," ","L","e","e">>
    ELSE IF i = 2 THEN <<"B","o">>
    ELSE << >>

ArchiveName(i) ==
    IF i = 1 THEN <<"H","W","5","_","C","o","m","p","u","t","e","r","_","A","n","n","_","L","e","e",".","z","i","p">>
    ELSE IF i = 2 THEN <<"h","w","4"," ","b","o",".","z","i","p">>
    ELSE <<"p","r","o","j","e","c","t",".","r","a","r">>

MatchOff == [matched |-> << >>, matches |-> << >>, used |-> {},
             remaining |-> << >>, extra |-> << >>]

Init ==
    /\ project \in ProjectNums
    /\ idx = 1
    /\ pc = "loop"
    /\ exc = "none"
    /\ arch = "none"
    /\ dirs = {}
    /\ raw = << >>
    /\ matched = << >>
    /\ result = NoGrading
    /\ ci = 1
    /\ sims = {}
    /\ boxes = {}
    /\ raised = {}
    /\ queue = << >>
    /\ mpc = "off"
    /\ mfound = << >>
    /\ mexpected = << >>
    /\ mst = MatchOff
    /\ upc = "off"
    /\ uin = << >>
    /\ uout = << >>
    /\ calls = << >>
    /\ fs = << >>
    /\ user_data = << >>
    /\ db = << >>
    /\ sent = << >>
    /\ chat = {}
    /\ conv = "off"

(***************************************************************************)
(* The batch loop, bot.py _start_grading                                   *)
(***************************************************************************)
Entry(uid, score, kind) == [uid |-> uid, score |-> score, kind |-> kind]

\* what the next iteration starts from: the locals of the last call are gone
NextIteration ==
    /\ idx' = idx + 1
    /\ pc' = "loop"
    /\ exc' = "none"
    /\ arch' = "none"
    /\ raw' = << >>
    /\ matched' = << >>
    /\ result' = NoGrading
    /\ ci' = 1
    /\ sims' = {}
    /\ boxes' = {}

\* 306-322: the submission holds no .zip or .rar file
NoArchive ==
    /\ pc = "loop" /\ idx <= NumSubs
    /\ queue' = Append(queue, Entry(idx, 0, "noarchive"))
    /\ idx' = idx + 1
    /\ UNCHANGED << project, pc, exc, arch, dirs, raw, matched, result, ci,
                    sims, boxes, raised, mvars, uvars, cvars, rvars >>

\* 328: moodle.download_file raises
DownloadFails ==
    /\ pc = "loop" /\ idx <= NumSubs
    /\ pc' = "except"
    /\ exc' = "download"
    /\ UNCHANGED << project, idx, arch, dirs, raw, matched, result, ci,
                    sims, boxes, raised, queue, mvars, uvars, cvars, rvars >>

\* 328-334, grading_engine.py 445-449: the archive is downloaded and
\* grade_student is called
StartGrade ==
    /\ pc = "loop" /\ idx <= NumSubs
    /\ pc' = "extract"
    /\ UNCHANGED << project, idx, exc, arch, dirs, raw, matched, result, ci,
                    sims, boxes, raised, queue, mvars, uvars, cvars, rvars >>

\* the queue entry of a graded submission (348-351)
GradedEntry(uid, gr) == Entry(uid, gr.total_earned, "graded")

\* 336-351, 364-365: grade_student returned
Report ==
    /\ pc = "report"
    /\ queue' = Append(queue, GradedEntry(idx, result))
    /\ NextIteration
    /\ UNCHANGED << project, dirs, raised, mvars, uvars, cvars, rvars >>

\* the queue entry of a submission whose grading raised (359-363)
ErrorEntry(uid) == Entry(uid, 0, "error")

\* Except with no handler around the call: the exception ends the batch
ExceptAborts ==
    /\ pc = "except"
    /\ pc' = "done"
    /\ UNCHANGED << project, idx, exc, arch, dirs, raw, matched, result, ci,
                    sims, boxes, raised, queue, mvars, uvars, cvars, rvars >>

\* 353-365: the handler of the batch loop
Except ==
    /\ pc = "except"
    /\ queue' = Append(queue, ErrorEntry(idx))
    /\ NextIteration
    /\ UNCHANGED << project, dirs, raised, mvars, uvars, cvars, rvars >>

\* 367-379: the loop is over
BatchDone ==
    /\ pc = "loop" /\ idx > NumSubs
    /\ pc' = "done"
    /\ UNCHANGED << project, idx, exc, arch, dirs, raw, matched, result, ci,
                    sims, boxes, raised, queue, mvars, uvars, cvars, rvars >>

(***************************************************************************)
(* grade_student (grading_engine.py 443-499)                               *)
(***************************************************************************)
\* 451, 269-289: the archive opens and is walked
ExtractOk ==
    /\ pc = "extract"
    /\ \E a \in Archives(project) :
           raw' = _extract_zip(a, Project.file_ext)
    /\ dirs' = dirs \cup {TmpDir(idx)}
    /\ arch' = "ok"
    /\ pc' = "grade"
    /\ UNCHANGED << project, idx, exc, matched, result, ci, sims, boxes,
                    raised, queue, mvars, uvars, cvars, rvars >>

\* 274-275: zipfile.BadZipFile
ExtractBadZip ==
    /\ pc = "extract"
    /\ raw' = << >>
    /\ dirs' = dirs \cup {TmpDir(idx)}
    /\ arch' = "badzip"
    /\ pc' = "grade"
    /\ UNCHANGED << project, idx, exc, matched, result, ci, sims, boxes,
                    raised, queue, mvars, uvars, cvars, rvars >>

\* the directories left when an exception leaves _extract_zip: the call
\* (451) stands before the try (452), so no finally runs
AfterExtractRaise(ds, tmp) == ds \cup {tmp}

\* 272-273, 278-288: ZipFile, extractall or the walk raises something that
\* is no BadZipFile (an encrypted member, a bad deflate stream, a full disk)
ExtractRaises ==
    /\ pc = "extract"
    /\ dirs' = AfterExtractRaise(dirs, TmpDir(idx))
    /\ arch' = "raises"
    /\ pc' = "except"
    /\ exc' = "extract"
    /\ raised' = raised \cup {[sub |-> idx, from |-> "extract"]}
    /\ UNCHANGED << project, idx, raw, matched, result, ci, sims, boxes,
                    queue, mvars, uvars, cvars, rvars >>

\* NoFilesChip with the points and the maximum swapped
NoFilesChipSwapped(c, mx) ==
    ChipResult6(c, FALSE, mx, 0, "missing", <<"No files in submission">>)

\* the ChipResult of the no-files branch (465-467)
NoFilesChip(c, mx) ==
    ChipResult6(c, FALSE, 0, mx, "missing", <<"No files in submission">>)

\* 462-470: the branch taken when raw is empty
NoFilesResult(res, proj) ==
    [res EXCEPT
        !.warnings = Append(@, <<"No files found in zip", proj.file_ext>>),
        !.chips = [i \in 1..Len(proj.chip_names) |->
                      NoFilesChip(proj.chip_names[i],
                                  DictGet(proj.chip_points, proj.chip_names[i]))],
        !.file_matches = [i \in 1..Len(proj.chip_names) |->
                      FileMatch(proj.chip_names[i], << >>, "not_found",
                                <<"No files in zip", proj.file_ext>>)]]

\* the finally of grade_student (498-499)
RmTree(ds, tmp) == ds \ {tmp}

\* 453-470, 498-499
GradeNoFiles ==
    /\ pc = "grade"
    /\ raw = << >>
    /\ result' = NoFilesResult(SetNaming(GradingResult(idx, Project), ArchiveName(idx),
                                FullName(idx)), Project)
    /\ dirs' = RmTree(dirs, TmpDir(idx))
    /\ pc' = "report"
    /\ UNCHANGED << project, idx, exc, arch, raw, matched, ci, sims, boxes,
                    raised, queue, mvars, uvars, cvars, rvars >>

\* the Naming warnings (483-486)
NamingWarnings(fmatches) ==
    LET fixed == SelectSeq(fmatches,
                     LAMBDA m : m.match_type \in {"case_fix", "fuzzy"})
    IN  [i \in 1..Len(fixed) |-> <<"Naming:", fixed[i].issue>>]

\* 453-487
GradeMatch ==
    /\ pc = "grade"
    /\ raw # << >>
    /\ LET m == _match_files(raw, Project.chip_names, Project.file_ext)
       IN  /\ matched' = m.matched
           /\ result' = [SetNaming(GradingResult(idx, Project), ArchiveName(idx),
                                FullName(idx)) EXCEPT
                            !.file_matches = m.matches,
                            !.extra_files = m.extra,
                            !.warnings = @ \o NamingWarnings(m.matches)]
    /\ ci' = 1
    /\ pc' = "run"
    /\ UNCHANGED << project, idx, exc, arch, dirs, raw, sims, boxes,
                    raised, queue, mvars, uvars, cvars, rvars >>

\* AddResult putting the result in front of the list
AddResultInFront(res, cr) ==
    [res EXCEPT !.chips = <<cr>> \o @, !.total_earned = @ + cr.points]

\* AddResult with "=" written for "+=": the total is overwritten
AddResultOverwrites(res, cr) ==
    [res EXCEPT !.chips = Append(@, cr), !.total_earned = cr.points]

\* 492-493
AddResult(res, cr) ==
    [res EXCEPT !.chips = Append(@, cr), !.total_earned = @ + cr.points]

\* the directories after a call of _run_one on chip c that ended in o
AfterRun(ds, o, c) ==
    IF o.mk /\ ~o.rm THEN ds \cup {Sandbox(idx, c)} ELSE ds

\* 489-493: one iteration, _run_one returns
RunOne ==
    /\ pc = "run"
    /\ ci <= Len(Project.chip_names)
    /\ LET c == Project.chip_names[ci]
       IN  \E env \in RunEnvs(Project.file_ext) :
           \E o \in _run_one(c, matched, Project, env) :
               /\ ~o.raised
               /\ result' = AddResult(result, o.result)
               /\ dirs' = AfterRun(dirs, o, c)
               /\ sims' = IF o.sim THEN sims \cup {c} ELSE sims
               /\ boxes' = IF o.mk THEN boxes \cup {c} ELSE boxes
    /\ ci' = ci + 1
    /\ UNCHANGED << project, idx, pc, exc, arch, raw, matched, raised,
                    queue, mvars, uvars, cvars, rvars >>

\* 490, 498-499: _run_one raises, the exception leaves grade_student
RunOneRaises ==
    /\ pc = "run"
    /\ ci <= Len(Project.chip_names)
    /\ LET c == Project.chip_names[ci]
       IN  \E env \in RunEnvs(Project.file_ext) :
           \E o \in _run_one(c, matched, Project, env) :
               /\ o.raised
               /\ dirs' = RmTree(AfterRun(dirs, o, c), TmpDir(idx))
               /\ sims' = IF o.sim THEN sims \cup {c} ELSE sims
               /\ boxes' = IF o.mk THEN boxes \cup {c} ELSE boxes
    /\ pc' = "except"
    /\ exc' = "run"
    /\ raised' = raised \cup {[sub |-> idx, from |-> "run"]}
    /\ UNCHANGED << project, idx, arch, raw, matched, result, ci, queue,
                    mvars, uvars, cvars, rvars >>

\* 495-496: the total is rounded, the cascade warnings are added
Finished(res, proj) ==
    { [res EXCEPT !.total_earned = t,
                  !.warnings = @ \o _cascades(res.chips, proj.deps)] :
      t \in Round2(res.total_earned, 1) }

\* 495-499
Finish ==
    /\ pc = "run"
    /\ ci > Len(Project.chip_names)
    /\ result' \in Finished(result, Project)
    /\ dirs' = RmTree(dirs, TmpDir(idx))
    /\ pc' = "report"
    /\ UNCHANGED << project, idx, exc, arch, raw, matched, ci, sims, boxes,
                    raised, queue, mvars, uvars, cvars, rvars >>

Next ==
    \/ NoArchive
    \/ DownloadFails
    \/ StartGrade
    \/ ExtractOk
    \/ ExtractBadZip
    \/ ExtractRaises
    \/ GradeNoFiles
    \/ GradeMatch
    \/ RunOne
    \/ RunOneRaises
    \/ Finish
    \/ Report
    \/ Except
    \/ BatchDone

Spec == Init /\ [][Next]_vars

(***************************************************************************)
(* _match_files on its own: any found mapping of at most MaxFound files    *)
(* over FoundNames, any of the expected lists, one pass per step           *)
(***************************************************************************)
FoundNames == { <<"N","o","t">>,
                <<"n","o","t">>,
                <<"N","O","T">>,
                <<"N","o","t","1","6">>,
                <<"N","o","t"," ","(","1",")">>,
                <<"M","y","N","o","t">>,
                <<"N","o","t","1","6","s">>,
                <<"A","n","d">>,
                <<"a","n","d","_","c","o","p","y">>,
                <<"A","L","U">>,
                <<"A","L","U","-","n","o","s","t","a","t">>,
                <<"a","l","u","_","n","o","s","t","a","t">>,
                <<"M","y","O","r","1">> }

ExpectedLists == { <<<<"N","o","t">>,<<"A","n","d">>>>,
                   <<<<"N","o","t">>,<<"N","O","T">>>>,
                   <<<<"N","o","t">>,<<"N","o","t","1","6">>>>,
                   <<<<"A","L","U">>,<<"A","L","U","-","n","o","s","t","a","t">>>>,
                   <<<<"O","r">>,<<"N","o","t">>>> }

\* the path of the file found under name n
PathOf(n) == [dir |-> << >>, file |-> n \o ExtHdl]

\* the found mappings: the sequences of distinct names, in any order
FoundMaps ==
    { f \in UNION { [1..k -> FoundNames] : k \in 0..MaxFound } :
        \A i, j \in 1..Len(f) : i # j => f[i] # f[j] }

InitMatch ==
    /\ project = 5
    /\ idx = 1
    /\ pc = "off"
    /\ exc = "none"
    /\ arch = "none"
    /\ dirs = {}
    /\ raw = << >>
    /\ matched = << >>
    /\ result = NoGrading
    /\ ci = 1
    /\ sims = {}
    /\ boxes = {}
    /\ raised = {}
    /\ queue = << >>
    /\ mpc = "pass1"
    /\ \E f \in FoundMaps :
           mfound = [i \in 1..Len(f) |-> [key |-> f[i], value |-> PathOf(f[i])]]
    /\ mexpected \in ExpectedLists
    /\ mst = MatchOff
    /\ upc = "off"
    /\ uin = << >>
    /\ uout = << >>
    /\ calls = << >>
    /\ fs = << >>
    /\ user_data = << >>
    /\ db = << >>
    /\ sent = << >>
    /\ chat = {}
    /\ conv = "off"

\* the matcher's locals after a pass that gave st
Locals(st) == [matched |-> st.matched, matches |-> st.matches,
               used |-> st.used, remaining |-> st.remaining,
               extra |-> mst.extra]

MPass1 ==
    /\ mpc = "pass1"
    /\ mst' = Locals(Pass1(MatchInit(mexpected), mfound, mexpected, ExtHdl))
    /\ mpc' = "pass2"
    /\ UNCHANGED << mfound, mexpected, pvars, uvars, cvars, rvars >>

MPass2 ==
    /\ mpc = "pass2"
    /\ mst' = Locals(Pass2(mst, mfound, mexpected, ExtHdl))
    /\ mpc' = "pass3"
    /\ UNCHANGED << mfound, mexpected, pvars, uvars, cvars, rvars >>

MPass3 ==
    /\ mpc = "pass3"
    /\ mst' = Locals(Pass3(mst, mfound, ExtHdl))
    /\ mpc' = "pass4"
    /\ UNCHANGED << mfound, mexpected, pvars, uvars, cvars, rvars >>

MPass4 ==
    /\ mpc = "pass4"
    /\ mst' = Locals(Pass4(mst, mfound, ExtHdl))
    /\ mpc' = "finish"
    /\ UNCHANGED << mfound, mexpected, pvars, uvars, cvars, rvars >>

MFinish ==
    /\ mpc = "finish"
    /\ mst' = [Locals(NotFound(mst, ExtHdl)) EXCEPT
                  !.extra = Extra(mfound, mst.used, ExtHdl)]
    /\ mpc' = "done"
    /\ UNCHANGED << mfound, mexpected, pvars, uvars, cvars, rvars >>

MatcherNext == MPass1 \/ MPass2 \/ MPass3 \/ MPass4 \/ MFinish

SpecMatch == InitMatch /\ [][MatcherNext]_vars

(***************************************************************************)
(* _run_one on its own: one call on any component of the assignments       *)
(* modelled, with or without a resolved file, in any environment.          *)
(***************************************************************************)
\* the path the component's file was resolved to
SourcePath(chip, ext) == [dir |-> << >>, file |-> chip \o ext]

\* the arguments of the calls
RunCalls ==
    UNION { { [project |-> n, chip |-> get_project(n).chip_names[i],
               matched |-> m, env |-> e] :
                i \in 1..Len(get_project(n).chip_names),
                m \in {TRUE}, e \in AllRunEnvs }
            \cup
            { [project |-> n, chip |-> get_project(n).chip_names[i],
               matched |-> FALSE, env |-> DefaultEnv] :
                i \in 1..Len(get_project(n).chip_names) } :
            n \in AllProjectNums }

\* the matched mapping of a call
MatchedOf(call) ==
    IF call.matched
    THEN << [key |-> call.chip,
             value |-> SourcePath(call.chip, get_project(call.project).file_ext)] >>
    ELSE << >>

InitRun ==
    /\ project = 5
    /\ idx = 1
    /\ pc = "off"
    /\ exc = "none"
    /\ arch = "none"
    /\ dirs = {}
    /\ raw = << >>
    /\ matched = << >>
    /\ result = NoGrading
    /\ ci = 1
    /\ sims = {}
    /\ boxes = {}
    /\ raised = {}
    /\ queue = << >>
    /\ mpc = "off"
    /\ mfound = << >>
    /\ mexpected = << >>
    /\ mst = MatchOff
    /\ upc = "call"
    /\ uin \in RunCalls
    /\ uout = << >>
    /\ calls = << >>
    /\ fs = << >>
    /\ user_data = << >>
    /\ db = << >>
    /\ sent = << >>
    /\ chat = {}
    /\ conv = "off"

CallRunOne ==
    /\ upc = "call"
    /\ uout' \in _run_one(uin.chip, MatchedOf(uin), get_project(uin.project),
                          uin.env)
    /\ upc' = "ret"
    /\ UNCHANGED << uin, pvars, mvars, cvars, rvars >>

SpecRun == InitRun /\ [][CallRunOne]_vars

(***************************************************************************)
(* _cascades on its own: one call on any list of results of the            *)
(* components A, B, C and any dependency graph over them (D is a           *)
(* prerequisite that is no component of the list).                         *)
(***************************************************************************)
cA == <<"A">>

cB == <<"B">>

cC == <<"C">>

cD == <<"D">>

\* a component's entry in deps: none, or its list of prerequisites
DepChoices ==
    { [has |-> FALSE, list |-> << >>] }
    \cup { [has |-> TRUE, list |-> l] :
             l \in { << >>, <<cA>>, <<cB, cA>>, <<cC, cD>> } }

DepGraphs ==
    { LET all == << [key |-> cA, value |-> f[1].list, has |-> f[1].has],
                    [key |-> cB, value |-> f[2].list, has |-> f[2].has],
                    [key |-> cC, value |-> f[3].list, has |-> f[3].has] >>
          kept == SelectSeq(all, LAMBDA e : e.has)
      IN  [i \in 1..Len(kept) |-> [key |-> kept[i].key, value |-> kept[i].value]] :
      f \in [1..3 -> DepChoices] }

\* the result of a component that passed, or failed
ResultOf(name, passed) ==
    IF passed THEN ChipResult6(name, TRUE, 100, 100, "pass", << >>)
    ELSE ChipResult6(name, FALSE, 0, 100, "syntax", <<"clean_err">>)

ResultLists ==
    { [i \in 1..Len(names) |-> ResultOf(names[i], ok[i])] :
        names \in { <<cA, cB, cC>> }, ok \in [1..3 -> BOOLEAN] }
    \cup
    { [i \in 1..Len(names) |-> ResultOf(names[i], ok[i])] :
        names \in { <<cB, cA>> }, ok \in [1..2 -> BOOLEAN] }

InitCascade ==
    /\ project = 5
    /\ idx = 1
    /\ pc = "off"
    /\ exc = "none"
    /\ arch = "none"
    /\ dirs = {}
    /\ raw = << >>
    /\ matched = << >>
    /\ result = NoGrading
    /\ ci = 1
    /\ sims = {}
    /\ boxes = {}
    /\ raised = {}
    /\ queue = << >>
    /\ mpc = "off"
    /\ mfound = << >>
    /\ mexpected = << >>
    /\ mst = MatchOff
    /\ upc = "call"
    /\ uin \in [results : ResultLists, deps : DepGraphs]
    /\ uout = << >>
    /\ calls = << >>
    /\ fs = << >>
    /\ user_data = << >>
    /\ db = << >>
    /\ sent = << >>
    /\ chat = {}
    /\ conv = "off"

CallCascades ==
    /\ upc = "call"
    /\ uout' = _cascades(uin.results, uin.deps)
    /\ upc' = "ret"
    /\ UNCHANGED << uin, pvars, mvars, cvars, rvars >>

SpecCascade == InitCascade /\ [][CallCascades]_vars

(***************************************************************************)
(* check_zip_naming on its own                                             *)
(***************************************************************************)
\* archive file names: grade_student's default (444), canonical names with
\* and without the extension, names that hold a part of what is asked
ZipFileNames ==
    { << >>,
      <<"H","W","2","_","A","L","U","_","A","n","n","_","L","e","e",".","z","i","p">>,
      <<"H","W","2","_","A","L","U","_","A","n","n","_","L","e","e",".","Z","I","P">>,
      <<"H","W","2","_","A","L","U","_","A","n","n","_","L","e","e">>,
      <<"H","W","2","_","A","L","U","_","A","n","n","_","L","e","e",".","r","a","r">>,
      <<"H","W","4","_","A","s","s","e","m","b","l","y","_","B","o","_",".","z","i","p">>,
      <<"H","W","4","_","A","s","s","e","m","b","l","y","_","B","o","_","B","o",".","z","i","p">>,
      <<"H","W","5","_","C","o","m","p","u","t","e","r","_","U","n","k","n","o","w","n","_","S","t","u","d","e","n","t",".","z","i","p">>,
      <<"h","w"," ","2"," ","l","e","e",".","z","i","p">>,
      <<"H","o","m","e","w","o","r","k","5","-","a","n","n",".","z","i","p">>,
      <<"p","r","o","j","e","c","t",".","z","i","p">>,
      <<"H","W","2","5","_","M","a","r","y",".","z","i","p">>,
      <<"a","l","u","_","b","o",".","z","i","p">>,
      <<"H","W","4",".","z","i","p">> }

\* display names of two tokens, three tokens, one token and none
StudentNames ==
    { <<"A","n","n"," ","L","e","e">>,
      <<" "," ","a","n","n"," "," "," ","M","a","r","y","\t","L","e","e"," ">>,
      <<"B","o">>,
      << >>,
      <<" ">> }

InitNaming ==
    /\ project = 5
    /\ idx = 1
    /\ pc = "off"
    /\ exc = "none"
    /\ arch = "none"
    /\ dirs = {}
    /\ raw = << >>
    /\ matched = << >>
    /\ result = NoGrading
    /\ ci = 1
    /\ sims = {}
    /\ boxes = {}
    /\ raised = {}
    /\ queue = << >>
    /\ mpc = "off"
    /\ mfound = << >>
    /\ mexpected = << >>
    /\ mst = MatchOff
    /\ upc = "call"
    /\ uin \in [filename : ZipFileNames, student_name : StudentNames,
                project_num : AllProjectNums]
    /\ uout = << >>
    /\ calls = << >>
    /\ fs = << >>
    /\ user_data = << >>
    /\ db = << >>
    /\ sent = << >>
    /\ chat = {}
    /\ conv = "off"

CallNaming ==
    /\ upc = "call"
    /\ uout' = check_zip_naming(uin.filename, uin.student_name, uin.project_num)
    /\ upc' = "ret"
    /\ UNCHANGED << uin, pvars, mvars, cvars, rvars >>

SpecNaming == InitNaming /\ [][CallNaming]_vars

(***************************************************************************)
(* grade_student as a function of what it is given and what its run meets. *)
(* A submission is [uid, name, filename, archive, envs]: the archive is    *)
(* [ok, entries] (ok = FALSE: zipfile.BadZipFile), envs[i] is what the run *)
(* of the i-th expected chip meets.  An outcome is [raised, result].       *)
(***************************************************************************)
Returned(res) == [raised |-> FALSE, result |-> res]

Propagated == [raised |-> TRUE, result |-> NoGrading]

\* the for loop 489-493 from the i-th chip on
RECURSIVE RunChips(_, _, _, _, _)
RunChips(res, mtch, proj, envs, i) ==
    IF i > Len(proj.chip_names) THEN { Returned(res) }
    ELSE UNION { IF o.raised THEN { Propagated }
                 ELSE RunChips(AddResult(res, o.result), mtch, proj, envs, i + 1) :
                 o \in _run_one(proj.chip_names[i], mtch, proj, envs[i]) }

\* 451-493: grade_student up to the end of the for loop; early tells that
\* the no-files branch returned (470)
GradedLoop(sub, proj) ==
    LET files == IF sub.archive.ok
                THEN _extract_zip(sub.archive.entries, proj.file_ext)
                ELSE << >>
        res0 == SetNaming(GradingResult(sub.uid, proj), sub.filename, sub.name)
        m    == _match_files(files, proj.chip_names, proj.file_ext)
    IN  IF files = << >>
        THEN { [early |-> TRUE, out |-> Returned(NoFilesResult(res0, proj))] }
        ELSE { [early |-> FALSE, out |-> o] :
               o \in RunChips([res0 EXCEPT
                                  !.file_matches = m.matches,
                                  !.extra_files = m.extra,
                                  !.warnings = @ \o NamingWarnings(m.matches)],
                              m.matched, proj, sub.envs, 1) }

\* grade_student (443-499): the outcomes a call can have
grade_student(sub, proj) ==
    UNION { IF g.early \/ g.out.raised THEN { g.out }
            ELSE { Returned(f) : f \in Finished(g.out.result, proj) } :
            g \in GradedLoop(sub, proj) }

\* environments of a run: full marks, one line of two, a syntax error of a
\* source with work, a timeout, a sandbox that cannot be made
EnvOf(ext, kind) ==
    LET e == [DefaultEnv EXCEPT !.source = WorkSource(ext)]
    IN  IF kind = "pass"
        THEN [e EXCEPT !.stdout = outSuccess, !.cmp = File(<<Hdr, L1, L1>>)]
        ELSE IF kind = "half"
        THEN [e EXCEPT !.stdout = outFailure, !.cmp = File(<<Hdr, L1, L1>>),
                       !.out = File(<<Hdr, L1pad, L0>>)]
        ELSE IF kind = "timeout" THEN [e EXCEPT !.proc = "timeout"]
        ELSE IF kind = "nobox" THEN [e EXCEPT !.mkdtemp = FALSE]
        ELSE e

\* what the chips of a submission meet, one environment per expected chip
EnvList(ext, k) == [i \in 1..3 |-> EnvOf(ext, k[i])]

EnvLists(ext) ==
    { EnvList(ext, k) :
        k \in { <<"pass", "pass", "pass">>,
                <<"half", "syntax", "timeout">>,
                <<"syntax", "half", "half">>,
                <<"pass", "nobox", "pass">> } }

\* the archives of assignment num, readable or not
ArchiveFiles(num) ==
    { [ok |-> TRUE, entries |-> a] : a \in Archives(num) }
    \cup { [ok |-> FALSE, entries |-> << >>] }

\* archive file name and display name: the canonical name of assignment 5,
\* a name that holds nothing asked for, no name at all
Namings ==
    { [filename |-> <<"H","W","5","_","C","o","m","p","u","t","e","r","_","A","n","n","_","L","e","e",".","z","i","p">>, name |-> <<"A","n","n"," ","L","e","e">>],
      [filename |-> <<"p","r","o","j","e","c","t",".","z","i","p">>, name |-> <<"A","n","n"," ","L","e","e">>],
      [filename |-> << >>, name |-> << >>] }

Submission(uid, naming, archive, envs) ==
    [uid |-> uid, name |-> naming.name, filename |-> naming.filename,
     archive |-> archive, envs |-> envs]

(***************************************************************************)
(* grade_student on its own, called twice on the same archive and runs     *)
(* under two archive file names and display names                          *)
(***************************************************************************)
InitGrade ==
    /\ project = 5
    /\ idx = 1
    /\ pc = "off"
    /\ exc = "none"
    /\ arch = "none"
    /\ dirs = {}
    /\ raw = << >>
    /\ matched = << >>
    /\ result = NoGrading
    /\ ci = 1
    /\ sims = {}
    /\ boxes = {}
    /\ raised = {}
    /\ queue = << >>
    /\ mpc = "off"
    /\ mfound = << >>
    /\ mexpected = << >>
    /\ mst = MatchOff
    /\ upc = "call"
    /\ \E n \in ProjectNums :
           uin \in [project : {n}, archive : ArchiveFiles(n),
                    envs : EnvLists(get_project(n).file_ext),
                    a : Namings, b : Namings]
    /\ uout = << >>
    /\ calls = << >>
    /\ fs = << >>
    /\ user_data = << >>
    /\ db = << >>
    /\ sent = << >>
    /\ chat = {}
    /\ conv = "off"

CallGrade ==
    /\ upc = "call"
    /\ LET proj == get_project(uin.project)
           subA == Submission(1, uin.a, uin.archive, uin.envs)
           subB == Submission(1, uin.b, uin.archive, uin.envs)
       IN  uout' = [loop |-> GradedLoop(subA, proj),
                    a |-> grade_student(subA, proj),
                    b |-> grade_student(subB, proj)]
    /\ upc' = "ret"
    /\ UNCHANGED << uin, pvars, mvars, cvars, rvars >>

SpecGrade == InitGrade /\ [][CallGrade]_vars

(***************************************************************************)
(* Calls of grade_student in progress at the same time.  The coroutines    *)
(* run on one event loop and give way only at the await of line 490; the   *)
(* _run_one of a call runs in a thread of the executor, beside the event   *)
(* loop and beside the _run_one of the other calls.  A call is             *)
(*   "new"     not started                                                 *)
(*   "run"     its _run_one for chip ci is handed to the executor          *)
(*   "sim"     that _run_one has made its sandbox and copied the files     *)
(*   "resume"  that _run_one returned cr, the coroutine is to go on        *)
(*   "raise"   that _run_one raised, the coroutine is to go on             *)
(*   "done"    grade_student returned or raised                            *)
(* fs gives for every name mkdtemp can give whether the directory exists   *)
(* and what it holds: the extracted entries, and for the source files in   *)
(* it what a run on them meets.                                            *)
(***************************************************************************)
\* the calls in progress at the same time
NumCalls == 2

CallIds == 1..NumCalls

\* the names mkdtemp can give: one per directory that can exist at a time
DirNames == 1..(2 * NumCalls)

NoDir == [exists |-> FALSE, entries |-> << >>, envs |-> << >>]

\* mkdtemp handing out any name, taken or not
mkdtempAny(files) == DOMAIN files

\* tempfile.mkdtemp (263, 379): a directory that did not exist
mkdtemp(files) == { d \in DOMAIN files : ~files[d].exists }

\* zf.extractall(tmp) (265-266)
Extracted(sub) ==
    [exists |-> TRUE,
     entries |-> IF sub.archive.ok THEN sub.archive.entries ELSE << >>,
     envs |-> sub.envs]

\* what the run of the i-th chip meets on the files of directory dir; a
\* file that is not there cannot be read or copied
EnvAt(dir, i) ==
    IF dir.exists /\ i \in DOMAIN dir.envs THEN dir.envs[i]
    ELSE [DefaultEnv EXCEPT !.source = Unreadable, !.copy = FALSE]

\* _rename_for_sim and the copies of 381-388 into a new sandbox
Copied(env) == [exists |-> TRUE, entries |-> << >>, envs |-> <<env>>]

\* shutil.rmtree(d, ignore_errors=True) (423, 499)
rmtree(files, d) == [files EXCEPT ![d] = NoDir]

NewCall(sub) ==
    [pc |-> "new", sub |-> sub, tmp |-> 0, sb |-> 0, matched |-> << >>,
     result |-> NoGrading, ci |-> 1, cr |-> NoResult, raised |-> FALSE,
     met |-> {}]

InProgress(c) == c.pc \notin {"new", "done"}

\* the submission of call p: user p, with the names of submission p
ConcSub(p, archive, envs) ==
    Submission(p, [filename |-> ArchiveName(p), name |-> FullName(p)],
               archive, envs)

\* what the runs of call p meet: the calls with an odd number earn points
\* on every chip or on some, the others fail two chips or cannot make a
\* sandbox
ConcEnvs(p, first, ext) ==
    EnvList(ext,
            IF p % 2 = 1
            THEN IF first THEN <<"pass", "pass", "pass">>
                 ELSE <<"half", "syntax", "timeout">>
            ELSE IF first THEN <<"syntax", "half", "half">>
                 ELSE <<"pass", "nobox", "pass">>)

InitConc ==
    /\ project \in ProjectNums
    /\ idx = 1
    /\ pc = "off"
    /\ exc = "none"
    /\ arch = "none"
    /\ dirs = {}
    /\ raw = << >>
    /\ matched = << >>
    /\ result = NoGrading
    /\ ci = 1
    /\ sims = {}
    /\ boxes = {}
    /\ raised = {}
    /\ queue = << >>
    /\ mpc = "off"
    /\ mfound = << >>
    /\ mexpected = << >>
    /\ mst = MatchOff
    /\ upc = "off"
    /\ uin = << >>
    /\ uout = << >>
    /\ \E a \in [CallIds -> ArchiveFiles(project)] :
       \E e \in [CallIds -> BOOLEAN] :
           calls = [p \in CallIds |->
                       NewCall(ConcSub(p, a[p],
                                       ConcEnvs(p, e[p], Project.file_ext)))]
    /\ fs = [d \in DirNames |-> NoDir]
    /\ user_data = << >>
    /\ db = << >>
    /\ sent = << >>
    /\ chat = {}
    /\ conv = "off"

\* 443-487 in one piece of the event loop: extraction, naming, the no-files
\* return (with the finally of 499) or the matching
StartCall ==
    \E p \in CallIds : \E d \in mkdtemp(fs) :
        LET c     == calls[p]
            fs1   == [fs EXCEPT ![d] = Extracted(c.sub)]
            files == _extract_zip(fs1[d].entries, Project.file_ext)
            res0  == SetNaming(GradingResult(c.sub.uid, Project),
                               c.sub.filename, c.sub.name)
            m     == _match_files(files, Project.chip_names, Project.file_ext)
            now   == { q \in CallIds : InProgress(calls[q]) }
            seen  == [q \in CallIds |->
                         IF q \in now
                         THEN [calls[q] EXCEPT !.met = @ \cup {p}]
                         ELSE calls[q]]
        IN  /\ c.pc = "new"
            /\ IF files = << >>
               THEN /\ calls' = [seen EXCEPT ![p] =
                                    [c EXCEPT !.pc = "done", !.met = now,
                                              !.result =
                                                  NoFilesResult(res0, Project)]]
                    /\ fs' = rmtree(fs1, d)
               ELSE /\ calls' = [seen EXCEPT ![p] =
                                    [c EXCEPT
                                       !.pc = "run", !.tmp = d, !.met = now,
                                       !.matched = m.matched,
                                       !.result =
                                           [res0 EXCEPT
                                              !.file_matches = m.matches,
                                              !.extra_files = m.extra,
                                              !.warnings =
                                                  @ \o NamingWarnings(m.matches)]]]
                    /\ fs' = fs1
            /\ UNCHANGED << pvars, mvars, uvars, rvars >>

\* _run_one up to line 390, in a thread: the early returns, or the sandbox
\* made and the files of the submission copied into it
EnterRun ==
    \E p \in CallIds :
        LET c    == calls[p]
            chip == Project.chip_names[c.ci]
            env  == EnvAt(fs[c.tmp], c.ci)
            outs == _run_one(chip, c.matched, Project, env)
        IN  /\ c.pc = "run"
            /\ IF \E o \in outs : o.mk
               THEN \E d \in mkdtemp(fs) :
                        /\ fs' = [fs EXCEPT ![d] = Copied(env)]
                        /\ calls' = [calls EXCEPT ![p] =
                                        [c EXCEPT !.pc = "sim", !.sb = d]]
               ELSE \E o \in outs :
                        /\ fs' = fs
                        /\ calls' = [calls EXCEPT ![p] =
                                        [c EXCEPT
                                           !.pc = IF o.raised THEN "raise"
                                                  ELSE "resume",
                                           !.cr = o.result]]
            /\ UNCHANGED << pvars, mvars, uvars, rvars >>

\* _run_one 390-423, in a thread: the simulator on the sandbox, the result
\* from what the sandbox holds, the sandbox removed
Simulate ==
    \E p \in CallIds :
        LET c    == calls[p]
            chip == Project.chip_names[c.ci]
            env  == EnvAt(fs[c.sb], 1)
        IN  /\ c.pc = "sim"
            /\ \E o \in InSandbox(chip, MaxPoints(Project, chip),
                                  _has_work(env.source, Project.file_ext),
                                  env) :
                   /\ fs' = IF o.rm THEN rmtree(fs, c.sb) ELSE fs
                   /\ calls' = [calls EXCEPT ![p] =
                                   [c EXCEPT !.pc = "resume", !.sb = 0,
                                             !.cr = o.result]]
            /\ UNCHANGED << pvars, mvars, uvars, rvars >>

\* 490-499 in one piece of the event loop: the result of the await added,
\* then the next chip handed over, or the end of grade_student
ResumeCall ==
    \E p \in CallIds :
        LET c   == calls[p]
            res == AddResult(c.result, c.cr)
        IN  /\ c.pc = "resume"
            /\ IF c.ci < Len(Project.chip_names)
               THEN /\ calls' = [calls EXCEPT ![p] =
                                    [c EXCEPT !.pc = "run", !.ci = @ + 1,
                                              !.result = res]]
                    /\ fs' = fs
               ELSE /\ \E f \in Finished(res, Project) :
                           calls' = [calls EXCEPT ![p] =
                                        [c EXCEPT !.pc = "done", !.tmp = 0,
                                                  !.result = f]]
                    /\ fs' = rmtree(fs, c.tmp)
            /\ UNCHANGED << pvars, mvars, uvars, rvars >>

\* the exception of _run_one leaves the await and grade_student through
\* the finally of 498-499
UnwindCall ==
    \E p \in CallIds :
        LET c == calls[p]
        IN  /\ c.pc = "raise"
            /\ calls' = [calls EXCEPT ![p] =
                            [c EXCEPT !.pc = "done", !.tmp = 0,
                                      !.raised = TRUE, !.result = NoGrading]]
            /\ fs' = rmtree(fs, c.tmp)
            /\ UNCHANGED << pvars, mvars, uvars, rvars >>

NextConc ==
    \/ StartCall
    \/ EnterRun
    \/ Simulate
    \/ ResumeCall
    \/ UnwindCall

SpecConc == InitConc /\ [][NextConc]_vars

(***************************************************************************)
(* The review flow (bot.py 376-524).  After the batch the queue holds one  *)
(* entry per submission and the results table one row per entry, status    *)
(* 'pending'.  chat holds the messages the bot sent, each with the buttons  *)
(* of its inline keyboard; q.edit_message_text without reply_markup takes   *)
(* the keyboard off the message pressed, reply_text and send_message make   *)
(* new messages and leave the others as they are.  The reviewer may press   *)
(* any button a message still shows.  The callback data of a button is     *)
(* kept as its parts: op, rid, and for "sub" the grade.  Time is counted in *)
(* grades saved.                                                           *)
(***************************************************************************)
\* the messages a session may add by grade changes, copies and prompts
MaxMsgs == 4

\* the row id db.save_result gave to the result of submission i
RidOf(i) == 10 + i

Button(op, rid, grade) == [op |-> op, rid |-> rid, grade |-> grade]

Message(kind, kb) == [kind |-> kind, kb |-> kb]

\* the keyboard of _show_next (409-425)
ReviewKeyboard(item) ==
    { Button("sub", item.rid, item.score), Button("edit", item.rid, 0),
      Button("copy", item.rid, 0), Button("skip", item.rid, 0) }

\* the keyboard of type_grade (510-520)
ChangedKeyboard(item, grade, old) ==
    { Button("sub", item.rid, grade), Button("sub", item.rid, old),
      Button("skip", item.rid, 0) }

\* _show_next (382-426): the summary, or the review message of queue[idx]
_show_next(ud, msgs) ==
    IF ud.idx >= Len(ud.queue)
    THEN Append(msgs, Message("summary", {}))
    ELSE Append(msgs, Message("review",
                              ReviewKeyboard(ud.queue[ud.idx + 1])))

\* q.edit_message_text(text): message m without its keyboard
edit_message_text(msgs, m) == [msgs EXCEPT ![m].kb = {}]

\* database.py 53-60
mark_submitted(rows, rid, grade, now) ==
    IF rid \in DOMAIN rows
    THEN [rows EXCEPT ![rid] = [@ EXCEPT !.status = "submitted",
                                         !.submitted_grade = grade,
                                         !.submitted_at = now]]
    ELSE rows

\* database.py 62-67
mark_skipped(rows, rid) ==
    IF rid \in DOMAIN rows
    THEN [rows EXCEPT ![rid] = [@ EXCEPT !.status = "skipped"]]
    ELSE rows

\* the value of the decimal digits s[i..j]
RECURSIVE DigitsValue(_, _, _)
DigitsValue(s, i, j) ==
    IF j < i THEN 0
    ELSE 10 * DigitsValue(s, i, j - 1)
         + (CHOOSE n \in 0..9 : Str(n) = <<s[j]>>)

RECURSIVE Pow10(_)
Pow10(k) == IF k = 0 THEN 1 ELSE 10 * Pow10(k - 1)

\* round(float(text), 2) with the assert of 497-498, in cents, for texts of
\* digits with at most one point, and texts float() does not take:
\* the grades it can give, or none when the handler asks again
ParseGrade(text, total_pts) ==
    LET t      == Strip(text)
        points == { i \in 1..Len(t) : t[i] = "." }
        dot    == IF points = {} THEN Len(t) + 1
                  ELSE CHOOSE i \in points : TRUE
        digits == [i \in 1..(Len(t) - Cardinality(points)) |->
                      IF i < dot THEN t[i] ELSE t[i + 1]]
    IN  IF \/ Cardinality(points) > 1
           \/ Len(digits) = 0
           \/ \E i \in 1..Len(digits) : ~IsDigit(digits[i])
        THEN {}
        ELSE { g \in Round2(100 * DigitsValue(digits, 1, Len(digits)),
                            Pow10(IF points = {} THEN 0 ELSE Len(t) - dot)) :
               0 <= g /\ g <= total_pts }

\* what the reviewer types
TypedTexts == { <<"7",".","5">>, <<" ","0"," ">>, <<"2","5","0">>, <<"o","k">>, <<"3",".","2","5">> }

\* the scores of the batch's results
QueueScores == {0, 850}

QueueItem(i, score) == [rid |-> RidOf(i), uid |-> i, score |-> score]

PendingRow(i) ==
    [user_id |-> i, status |-> "pending", submitted_grade |-> 0,
     submitted_at |-> 0]

\* 367-379: the state the batch leaves, and the first review message
InitReview ==
    /\ project \in ProjectNums
    /\ idx = 1
    /\ pc = "off"
    /\ exc = "none"
    /\ arch = "none"
    /\ dirs = {}
    /\ raw = << >>
    /\ matched = << >>
    /\ result = NoGrading
    /\ ci = 1
    /\ sims = {}
    /\ boxes = {}
    /\ raised = {}
    /\ queue = << >>
    /\ mpc = "off"
    /\ mfound = << >>
    /\ mexpected = << >>
    /\ mst = MatchOff
    /\ upc = "off"
    /\ uin = << >>
    /\ uout = << >>
    /\ calls = << >>
    /\ fs = << >>
    /\ \E sc \in [1..NumSubs -> QueueScores] :
           user_data = [queue |-> [i \in 1..NumSubs |-> QueueItem(i, sc[i])],
                        idx |-> 0, edit_rid |-> 0]
    /\ db = [r \in { RidOf(i) : i \in 1..NumSubs } |-> 
               PendingRow(CHOOSE i \in 1..NumSubs : RidOf(i) = r)]
    /\ sent = << >>
    /\ chat = _show_next(user_data, << >>)
    /\ conv = "REVIEWING"

\* the buttons op the reviewer can press: review_action is reached in the
\* state REVIEWING only, and returns at once when the queue is over (437)
Pressed(op) ==
    IF conv = "REVIEWING" /\ user_data.idx < Len(user_data.queue)
    THEN UNION { { [m |-> m, b |-> b] : b \in { x \in chat[m].kb : x.op = op } } :
                 m \in 1..Len(chat) }
    ELSE {}

\* review_action, "sub_" (443-465): moodle.submit_grade returns or raises
PressSubmit ==
    \E pr \in Pressed("sub") : \E ok \in BOOLEAN :
        LET item == user_data.queue[user_data.idx + 1]
            ud   == [user_data EXCEPT !.idx = @ + 1]
            out  == Append(sent, [uid |-> item.uid, grade |-> pr.b.grade])
        IN  /\ IF ok
               THEN /\ sent' = out
                    /\ db' = mark_submitted(db, pr.b.rid, pr.b.grade, Len(out))
                    /\ user_data' = ud
                    /\ chat' = _show_next(ud, edit_message_text(chat, pr.m))
               ELSE /\ chat' = edit_message_text(chat, pr.m)
                    /\ UNCHANGED << sent, db, user_data >>
            /\ UNCHANGED << conv, pvars, mvars, uvars, cvars >>

\* review_action, "skip_" (467-475)
PressSkip ==
    \E pr \in Pressed("skip") :
        LET ud == [user_data EXCEPT !.idx = @ + 1]
        IN  /\ db' = mark_skipped(db, pr.b.rid)
            /\ user_data' = ud
            /\ chat' = _show_next(ud, edit_message_text(chat, pr.m))
            /\ UNCHANGED << sent, conv, pvars, mvars, uvars, cvars >>

\* review_action, "edit_" (477-481)
PressEdit ==
    \E pr \in Pressed("edit") :
        /\ Len(chat) < MaxMsgs + NumSubs
        /\ user_data' = [user_data EXCEPT !.edit_rid = pr.b.rid]
        /\ chat' = Append(chat, Message("prompt", {}))
        /\ conv' = "TYPING_GRADE"
        /\ UNCHANGED << sent, db, pvars, mvars, uvars, cvars >>

\* review_action, "copy_" (483-487)
PressCopy ==
    \E pr \in Pressed("copy") :
        /\ Len(chat) < MaxMsgs + NumSubs
        /\ chat' = Append(chat, Message("copy", {}))
        /\ UNCHANGED << user_data, sent, db, conv, pvars, mvars, uvars, cvars >>

\* type_grade (493-524)
TypeGrade ==
    /\ conv = "TYPING_GRADE"
    /\ Len(chat) < MaxMsgs + NumSubs
    /\ \E text \in TypedTexts :
         LET grades == ParseGrade(text, Project.total_points)
             i      == user_data.idx + 1
             item   == user_data.queue[i]
         IN  IF grades = {}
             THEN /\ chat' = Append(chat, Message("prompt", {}))
                  /\ UNCHANGED << user_data, conv >>
             ELSE \E grade \in grades :
                    /\ user_data' = [user_data EXCEPT
                                        !.queue[i].score = grade]
                    /\ chat' = Append(chat,
                                      Message("changed",
                                              ChangedKeyboard(item, grade,
                                                              item.score)))
                    /\ conv' = "REVIEWING"
    /\ UNCHANGED << sent, db, pvars, mvars, uvars, cvars >>

NextReview ==
    \/ PressSubmit
    \/ PressSkip
    \/ PressEdit
    \/ PressCopy
    \/ TypeGrade

SpecReview == InitReview /\ [][NextReview]_vars

(***************************************************************************)
(* Properties                                                              *)
(***************************************************************************)
RECURSIVE SumOfPoints(_, _)
SumOfPoints(chips, i) ==
    IF i > Len(chips) THEN 0 ELSE chips[i].points + SumOfPoints(chips, i + 1)

ChipNames == Project.chip_names

\* the indices of the results, and of the file matches, recorded for name n
ResultsOf(n) == { i \in 1..Len(result.chips) : result.chips[i].name = n }

MatchesOf(n) ==
    { i \in 1..Len(result.file_matches) :
        result.file_matches[i].expected_name = n }

\* C1: every GradingResult grade_student returns (from the no-files branch
\* or from the end of the function) has total_earned equal to the sum of its
\* components' points rounded to two decimals, with
\* 0 <= total_earned <= total_possible, and total_possible is the sum of the
\* assignment's maximum points.
C1_TotalIsRoundedSum ==
    pc = "report" =>
        /\ result.total_earned \in Round2(SumOfPoints(result.chips, 1), 1)
        /\ 0 <= result.total_earned
        /\ result.total_earned <= result.total_possible
        /\ result.total_possible
               \in Round2(SumPoints(PROJECTS(project).chips, 1), 1)

\* a result returned after the run phase in which two components earned
\* points, one of them partial credit
C1_Witness ==
    /\ pc = "report"
    /\ arch = "ok"
    /\ \E i, j \in 1..Len(result.chips) :
           /\ i # j
           /\ result.chips[i].points > 0
           /\ result.chips[j].points > 0
           /\ result.chips[j].points < result.chips[j].max_points
    /\ result.total_earned < result.total_possible

\* C2: every ComponentResult, whatever its category, has
\* 0 <= points <= max_points, and max_points is the component's maximum in
\* the assignment.
C2_PointsWithinMax ==
    \A i \in 1..Len(result.chips) :
        LET c == result.chips[i]
        IN  /\ 0 <= c.points
            /\ c.points <= c.max_points
            /\ c.max_points = DictGet(Project.chip_points, c.name)
            /\ c.error_type \in {"pass", "missing", "builtin", "mismatch",
                                 "syntax", "timeout", "internal"}

\* results of a syntax error with effort credit and of a partial mismatch
C2_Witness ==
    /\ \E i \in 1..Len(result.chips) :
           /\ result.chips[i].error_type = "syntax"
           /\ result.chips[i].points > 0
    /\ \E i \in 1..Len(result.chips) :
           /\ result.chips[i].error_type = "mismatch"
           /\ result.chips[i].points > 0
           /\ result.chips[i].points < result.chips[i].max_points

\* C3: for pairwise distinct expected names, _match_files never gives the
\* same found file to two expected names: after every pass the map from
\* expected name to file is injective.
C3_Injective ==
    \A i, j \in 1..Len(mst.matched) :
        i # j => mst.matched[i].value # mst.matched[j].value

\* C4: when grade_student has returned, every expected component name has
\* exactly one FileMatch in file_matches and exactly one ComponentResult in
\* chips, and nothing else is in either list.
C4_OnePerName ==
    pc = "report" =>
        /\ \A i \in 1..Len(ChipNames) :
               /\ Cardinality(ResultsOf(ChipNames[i])) = 1
               /\ Cardinality(MatchesOf(ChipNames[i])) = 1
        /\ Len(result.chips) = Len(ChipNames)
        /\ Len(result.file_matches) = Len(ChipNames)

\* a result returned on the matching path with a name resolved by a later
\* pass and a name not found
C4_Witness ==
    /\ pc = "report"
    /\ \E i \in 1..Len(result.file_matches) :
           result.file_matches[i].match_type = "not_found"
    /\ \E i \in 1..Len(result.file_matches) :
           result.file_matches[i].match_type = "fuzzy"
    /\ \E i \in 1..Len(result.chips) : result.chips[i].error_type # "missing"

C6_TmpRemoved ==
    pc \in {"loop", "report", "except", "done"} =>
        \A d \in dirs : d.kind # "n2t"

C8_EveryChipAttempted ==
    (pc \in {"report", "except"} /\ raw # << >>) =>
        Len(result.chips) = Len(ChipNames)

\* C9: a component with no resolved file gets category missing, zero
\* points and passed = false, and neither a sandbox nor a simulator run is
\* made for it.
C9_UnmatchedIsMissing ==
    \A i \in 1..Len(result.chips) :
        LET c == result.chips[i]
        IN  ~DictHas(matched, c.name) =>
                /\ c.error_type = "missing"
                /\ c.points = 0
                /\ ~c.passed
                /\ c.name \notin sims
                /\ c.name \notin boxes

\* on the matching path: a component without a file was given its result
\* after the simulator ran for another one
C9_Witness ==
    /\ pc = "run"
    /\ sims # {}
    /\ \E i \in 1..Len(result.chips) :
           /\ ~DictHas(matched, result.chips[i].name)
           /\ result.chips[i].error_type = "missing"

\* c matches exp by the substring pass only: not verbatim, not ignoring
\* case, not after normalizing, but as a candidate with a ratio above 0.4
FuzzyOnly(c, exp) ==
    /\ c # exp
    /\ Lower(c) # Lower(exp)
    /\ _normalize(c) # _normalize(exp)
    /\ IsCandidate(exp, c)
    /\ FracGt(Score(exp, c), FuzzyThreshold)

\* the expected names the matcher gave the file found under name c to
GivenTo(c) ==
    { mst.matched[i].key :
        i \in { j \in 1..Len(mst.matched) : mst.matched[j].value = PathOf(c) } }

\* the FileMatch records of expected name exp
MatchRecords(exp) ==
    { mst.matches[i] :
        i \in { j \in 1..Len(mst.matches) : mst.matches[j].expected_name = exp } }

\* C10: when the found set holds a file named exactly as an expected name
\* and another file that matches that name by fuzzy substring only,
\* _match_files gives the expected name the exact file with category exact,
\* and the other file is either given to a different expected name or
\* listed as an extra file.
C10_ExactBeatsFuzzy ==
    mpc = "done" =>
        \A e \in 1..Len(mexpected) : \A f \in 1..Len(mfound) :
            LET exp == mexpected[e]
                c   == mfound[f].key
            IN  (DictHas(mfound, exp) /\ FuzzyOnly(c, exp)) =>
                    /\ DictGet(mst.matched, exp) = PathOf(exp)
                    /\ MatchRecords(exp) =
                           { FileMatch(exp, exp \o ExtHdl, "exact", << >>) }
                    /\ exp \notin GivenTo(c)
                    /\ \/ /\ GivenTo(c) # {}
                          /\ \A i \in 1..Len(mst.extra) :
                                 mst.extra[i] # c \o ExtHdl
                       \/ /\ GivenTo(c) = {}
                          /\ \E i \in 1..Len(mst.extra) :
                                 mst.extra[i] = c \o ExtHdl

\* Not is found verbatim and Not16s, a fuzzy candidate for Not, is given to
\* Not16
C10_Witness ==
    /\ mpc = "done"
    /\ \E e \in 1..Len(mexpected) : \E f \in 1..Len(mfound) :
           /\ DictHas(mfound, mexpected[e])
           /\ FuzzyOnly(mfound[f].key, mexpected[e])
           /\ GivenTo(mfound[f].key) # {}

\* the found mapping f with its entries inserted in the order p
Reordered(f, p) == [i \in 1..Len(f) |-> f[p[i]]]

\* the orders in which the entries of f can be inserted
Orders(f) ==
    { p \in [1..Len(f) -> 1..Len(f)] :
        \A i, j \in 1..Len(f) : i # j => p[i] # p[j] }

\* the expected-to-file assignment and the categories of a matcher result
AssignmentOf(r) ==
    { <<r.matched[i].key, r.matched[i].value>> : i \in 1..Len(r.matched) }

CategoriesOf(r) ==
    { <<r.matches[i].expected_name, r.matches[i].match_type>> :
        i \in 1..Len(r.matches) }

\* C11: _match_files gives the same assignment and the same categories for
\* the same set of found files and the same expected names, in whatever
\* order the found files were inserted into the mapping.
C11_OrderIndependent ==
    mpc = "done" =>
        \A p \in Orders(mfound) :
            LET r == _match_files(Reordered(mfound, p), mexpected, ExtHdl)
            IN  /\ AssignmentOf(r) = AssignmentOf(mst)
                /\ CategoriesOf(r) = CategoriesOf(mst)

\* the found names whose file the matcher gave to some expected name
Assigned ==
    { mfound[f].key :
        f \in { g \in 1..Len(mfound) :
                  \E i \in 1..Len(mst.matched) :
                      mst.matched[i].value = mfound[g].value } }

\* how many times the extra list names the file found under name n
TimesExtra(n) ==
    Cardinality({ i \in 1..Len(mst.extra) : mst.extra[i] = n \o ExtHdl })

\* C12: after _match_files the found files are split into the assigned and
\* the extra ones: a found file given to no expected name is in the extra
\* list exactly once, an assigned file is not in it, the list holds nothing
\* else, and every assigned path is the path of a found file.
C12_ExtraIsTheRest ==
    mpc = "done" =>
        /\ \A f \in 1..Len(mfound) :
               TimesExtra(mfound[f].key) =
                   IF mfound[f].key \in Assigned THEN 0 ELSE 1
        /\ Len(mst.extra) = Len(mfound) - Cardinality(Assigned)
        /\ \A i \in 1..Len(mst.matched) :
               \E f \in 1..Len(mfound) :
                   mfound[f].value = mst.matched[i].value

\* of two found files one was given to an expected name, the other is extra
C12_Witness ==
    /\ mpc = "done"
    /\ Len(mfound) = 2
    /\ Cardinality(Assigned) = 1
    /\ Len(mst.extra) = 1

\* the call of _run_one made on its own: its assignment, the component's
\* maximum, the file type, and whether it got as far as the simulator
RunProject == get_project(uin.project)

RunMax == DictGet(RunProject.chip_points, uin.chip)

RunIsHdl == RunProject.file_ext = ExtHdl

RunOutput == Combined(uin.env.stdout, uin.env.stderr)

RunHasWork == _has_work(uin.env.source, RunProject.file_ext)

\* the text holds the reserved word as a word of its own, in any letter
\* case: a run of word characters, bounded by other characters or by the
\* ends of the text, that spells "builtin" when lowered
HasReservedWord(t) ==
    \E i, j \in 1..Len(t) :
        /\ i <= j
        /\ \A k \in i..j : IsWord(t[k])
        /\ (i = 1 \/ ~IsWord(t[i - 1]))
        /\ (j = Len(t) \/ ~IsWord(t[j + 1]))
        /\ Lower(SubSeq(t, i, j)) = <<"b","u","i","l","t","i","n">>

\* C13: for a component of an HDL assignment whose resolved source holds
\* the reserved word BUILTIN in any letter case, _run_one returns category
\* builtin with zero points and passed = false, and neither a sandbox nor
\* the simulator is started; for a component of an assembly assignment the
\* word is not looked for, and no other source gets category builtin.
C13_BuiltinStopsTheRun ==
    (upc = "ret" /\ uin.matched /\ uin.env.source.readable) =>
        IF RunIsHdl /\ HasReservedWord(uin.env.source.text)
        THEN /\ ~uout.raised
             /\ uout.result.error_type = "builtin"
             /\ uout.result.points = 0
             /\ ~uout.result.passed
             /\ ~uout.sim
             /\ ~uout.mk
             /\ uout.child = "none"
        ELSE uout.raised \/ uout.result.error_type # "builtin"

\* an HDL source that spells the word in mixed case was stopped
C13_Witness ==
    /\ upc = "ret"
    /\ RunIsHdl
    /\ uin.env.source = srcHdlBuiltin
    /\ uin.env.stdout = outSyntax
    /\ uout.result.error_type = "builtin"

\* C14: when the simulator ends within the timeout and its combined output
\* holds the success marker, _run_one returns category pass with
\* passed = true and the component's maximum as points, and total_tests =
\* passed_tests = the line count of the comparison trace minus one, 0 when
\* the trace is absent or empty.
C14_SuccessIsFullCredit ==
    (upc = "ret" /\ uout.child = "exited" /\ HasSuccess(RunOutput)) =>
        /\ ~uout.raised
        /\ uout.result.error_type = "pass"
        /\ uout.result.passed
        /\ uout.result.points = RunMax
        /\ uout.result.max_points = RunMax
        /\ uout.result.total_tests = uout.result.passed_tests
        /\ uout.result.total_tests =
               IF uin.env.cmp.exists /\ Len(uin.env.cmp.lines) > 0
               THEN Len(uin.env.cmp.lines) - 1 ELSE 0

\* a pass against a trace of a header and four lines, the failure marker
\* being in the output as well
C14_Witness ==
    /\ upc = "ret"
    /\ uout.result.error_type = "pass"
    /\ HasFailure(RunOutput)
    /\ Len(uin.env.cmp.lines) = 5
    /\ uout.result.total_tests = 4

\* the indices 1..total at which the trimmed comparison line equals the
\* trimmed output line, an output line that does not exist being empty
MatchingLines(cmp, out) ==
    { i \in 1..(Len(cmp) - 1) :
        Strip(cmp[i + 1]) = IF i + 1 <= Len(out) THEN Strip(out[i + 1])
                            ELSE << >> }

\* C15: when the comparison failed, with a comparison trace of at least two
\* lines and an existing output trace, total = the comparison line count
\* minus 1, passed = the number of indices in 1..total whose trimmed lines
\* are equal, 0 <= passed <= total, and
\* points = round(max_points * passed / total, 2).
C15_PartialCredit ==
    (/\ upc = "ret"
     /\ uout.child = "exited"
     /\ ~HasSuccess(RunOutput)
     /\ HasFailure(RunOutput)
     /\ uin.env.cmp.exists
     /\ Len(uin.env.cmp.lines) >= 2
     /\ uin.env.out.exists) =>
        LET total  == Len(uin.env.cmp.lines) - 1
            passed == Cardinality(MatchingLines(uin.env.cmp.lines,
                                                uin.env.out.lines))
        IN  /\ ~uout.raised
            /\ uout.result.error_type = "mismatch"
            /\ uout.result.total_tests = total
            /\ uout.result.passed_tests = passed
            /\ 0 <= passed /\ passed <= total
            /\ uout.result.points \in Round2(RunMax * passed, total)
            /\ uout.result.max_points = RunMax

\* 3 of 4 lines equal (one of them up to blanks) with a maximum of 0.80
\* gives 0.60
C15_Witness ==
    /\ upc = "ret"
    /\ uout.result.error_type = "mismatch"
    /\ uout.result.max_points = 80
    /\ uout.result.total_tests = 4
    /\ uout.result.passed_tests = 3
    /\ uout.result.points = 60

\* C16: when the simulator call exceeds the timeout, _run_one returns
\* category timeout with passed = false and
\* points = round(0.1 * max_points, 2) if the source has work, else 0; the
\* child process is killed, the sandbox removed, and the call returns.
C16_TimeoutCredit ==
    (upc = "ret" /\ uout.sim /\ uin.env.proc = "timeout") =>
        /\ ~uout.raised
        /\ uout.result.error_type = "timeout"
        /\ ~uout.result.passed
        /\ uout.result.points \in
               (IF RunHasWork THEN Round2(RunMax * 10, 100) ELSE {0})
        /\ uout.result.max_points = RunMax
        /\ uout.child = "killed"
        /\ uout.rm

\* a timeout of a source with work, and effort credit given
C16_Witness ==
    /\ upc = "ret"
    /\ uout.result.error_type = "timeout"
    /\ RunHasWork
    /\ uout.result.points > 0
    /\ uout.child = "killed"

\* C17: when the simulator ends within the timeout and its output holds
\* neither the success marker nor a "comparison failure at line N" marker,
\* _run_one returns category syntax with passed = false and
\* points = round(0.15 * max_points, 2) if the source has work, else 0.
C17_SyntaxCredit ==
    (/\ upc = "ret"
     /\ uout.child = "exited"
     /\ ~HasSuccess(RunOutput)
     /\ ~HasFailure(RunOutput)) =>
        /\ ~uout.raised
        /\ uout.result.error_type = "syntax"
        /\ ~uout.result.passed
        /\ uout.result.points \in
               (IF RunHasWork THEN Round2(RunMax * 15, 100) ELSE {0})
        /\ uout.result.max_points = RunMax

\* an output that holds the failure phrase without a line number, for a
\* source with work
C17_Witness ==
    /\ upc = "ret"
    /\ uin.env.stdout = outAlmost
    /\ uout.result.error_type = "syntax"
    /\ RunHasWork
    /\ uout.result.points > 0

\* the call came to the test of the test script (375): a file was resolved
\* and the builtin test did not stop the run
RunCameToTst ==
    uin.matched /\ ~(RunIsHdl /\ _check_builtin(uin.env.source))

\* the faults of tooling and environment a call met: the test script is
\* absent; an exception other than a timeout (making the sandbox, copying
\* into it, starting the simulator); a trace file is absent when the
\* comparison failed and the traces are to be compared
RunFault ==
    /\ RunCameToTst
    /\ \/ ~uin.env.tst
       \/ ~uin.env.mkdtemp
       \/ ~uin.env.copy
       \/ uin.env.proc = "error"
       \/ /\ uin.env.proc = "exit"
          /\ ~HasSuccess(RunOutput)
          /\ HasFailure(RunOutput)
          /\ (~uin.env.cmp.exists \/ ~uin.env.out.exists)

\* C18: every ComponentResult of category internal has zero points,
\* passed = false and a message of bounded length; and every fault of
\* tooling or environment (test script absent, trace files absent, an
\* exception other than a timeout) is reported with category internal.
C18_FaultsAreInternal ==
    upc = "ret" =>
        /\ (~uout.raised /\ uout.result.error_type = "internal") =>
               /\ uout.result.points = 0
               /\ ~uout.result.passed
               /\ Len(uout.result.error_msg) <= MsgLimit
        /\ RunFault => (~uout.raised /\ uout.result.error_type = "internal")

\* the names of the warnings a call of _cascades gave
Warned == { uout[i][1] : i \in 1..Len(uout) }

\* the components of the list that failed
FailedNames ==
    { uin.results[i].name :
        i \in { j \in 1..Len(uin.results) : ~uin.results[j].passed } }

\* the prerequisites of component n that failed
BrokenPrereqs(n) ==
    { d \in { DepsOf(uin.deps, n)[k] : k \in 1..Len(DepsOf(uin.deps, n)) } :
        d \in FailedNames }

\* C19: _cascades gives a warning for component C if and only if C failed
\* and at least one prerequisite of C failed too; there is one warning per
\* such component, and it names C and exactly its failed prerequisites.
C19_CascadeWarnings ==
    upc = "ret" =>
        /\ \A i \in 1..Len(uin.results) :
               LET n == uin.results[i].name
               IN  n \in Warned <=> (n \in FailedNames /\ BrokenPrereqs(n) # {})
        /\ \A i \in 1..Len(uout) :
               /\ { uout[i][3][k] : k \in 1..Len(uout[i][3]) }
                      = BrokenPrereqs(uout[i][1])
               /\ \A j \in 1..Len(uout) : uout[j][1] = uout[i][1] => j = i

\* B failed with its prerequisite A and is warned about; C failed too, its
\* prerequisites did not, and it is not
C19_Witness ==
    /\ upc = "ret"
    /\ Len(uin.results) = 3
    /\ FailedNames = {cA, cB, cC}
    /\ DepsOf(uin.deps, cB) = <<cB, cA>>
    /\ DepsOf(uin.deps, cC) = << >>
    /\ cB \in Warned
    /\ cC \notin Warned

\* C20: the ComponentResults of a GradingResult are in the order of the
\* assignment's expected components, and on the matching path
\* grade_student returns only after _run_one was called for every expected
\* component.
C20_ExpectedOrder ==
    /\ Len(result.chips) <= Len(ChipNames)
    /\ \A i \in 1..Len(result.chips) : result.chips[i].name = ChipNames[i]
    /\ pc = "report" =>
           /\ Len(result.chips) = Len(ChipNames)
           /\ raw # << >> => ci = Len(ChipNames) + 1

\* a result returned on the matching path whose first component is missing
\* and whose second one was run in the simulator
C20_Witness ==
    /\ pc = "report"
    /\ raw # << >>
    /\ ci = Len(ChipNames) + 1
    /\ result.chips[1].error_type = "missing"
    /\ result.chips[2].error_type \in {"pass", "mismatch", "syntax"}
    /\ sims = {ChipNames[2]}

\* the tokens of a display name: its maximal runs of characters that are
\* no whitespace, as pairs of first and last index
TokenRuns(s) ==
    { r \in (1..Len(s)) \X (1..Len(s)) :
        /\ r[1] <= r[2]
        /\ \A k \in r[1]..r[2] : ~IsSpace(s[k])
        /\ (r[1] = 1 \/ IsSpace(s[r[1] - 1]))
        /\ (r[2] = Len(s) \/ IsSpace(s[r[2] + 1])) }

FirstToken(s) ==
    LET r == CHOOSE x \in TokenRuns(s) : \A y \in TokenRuns(s) : x[1] <= y[1]
    IN  SubSeq(s, r[1], r[2])

LastToken(s) ==
    LET r == CHOOSE x \in TokenRuns(s) : \A y \in TokenRuns(s) : x[1] >= y[1]
    IN  SubSeq(s, r[1], r[2])

\* the canonical archive name the claim describes
CanonicalAsClaimed(num, name) ==
    ZipTag(num) \o <<"_">>
    \o (IF TokenRuns(name) = {} THEN phUnknown ELSE FirstToken(name))
    \o <<"_">>
    \o (IF TokenRuns(name) = {} THEN phStudent ELSE LastToken(name))

\* C21: the canonical archive name check_zip_naming builds is the tag of the
\* assignment, the first token and the last token of the display name,
\* joined by "_"; for a display name of one token T both are T, and for an
\* empty display name they are the placeholders.
C21_CanonicalName ==
    (upc = "ret" /\ uin.filename # << >>) =>
        uout.expected_pattern
            = CanonicalAsClaimed(uin.project_num, uin.student_name) \o extZip

\* the archive file name with its extension stripped
NameNoExt ==
    IF Len(uin.filename) >= 4
       /\ Lower(SubSeq(uin.filename, Len(uin.filename) - 3, Len(uin.filename)))
              = extZip
    THEN SubSeq(uin.filename, 1, Len(uin.filename) - 4)
    ELSE uin.filename

\* the canonical name check_zip_naming compares with
CanonicalName == ExpectedName(uin.project_num, NameTokens(uin.student_name))

\* the assignment-number token: "hw" or "homework" in any letter case,
\* whitespace or nothing, then the number of the assignment
NumberTokenIn(name) ==
    \E i \in 1..Len(name) : \E j \in i..Len(name) : \E k \in j..Len(name) :
        /\ Lower(SubSeq(name, i, j)) \in
               { <<"h","w">>, <<"h","o","m","e","w","o","r","k">> }
        /\ \A x \in (j + 1)..(k - Len(Str(uin.project_num))) : IsSpace(name[x])
        /\ k - Len(Str(uin.project_num)) >= j
        /\ SubSeq(name, k - Len(Str(uin.project_num)) + 1, k)
               = Str(uin.project_num)

\* one of the name tokens the canonical name is built from occurs in name,
\* letter case ignored
NameTokenIn(name) ==
    LET tok == IF TokenRuns(uin.student_name) = {}
               THEN {phUnknown, phStudent}
               ELSE {FirstToken(uin.student_name), LastToken(uin.student_name)}
    IN  \E t \in tok :
            \E i \in 0..(Len(name) - Len(t)) :
                Lower(SubSeq(name, i + 1, i + Len(t))) = Lower(t)

\* the issue text lists x
IssueLists(x) ==
    /\ Len(uout.issue) = 5
    /\ \E k \in 1..Len(uout.issue[5]) : uout.issue[5][k] = x

NamingVerdict ==
    /\ uout.is_correct <=> (NameNoExt = CanonicalName)
    /\ ~uout.is_correct =>
           /\ IssueLists(msgNoNumber) <=> ~NumberTokenIn(NameNoExt)
           /\ IssueLists(msgNoName) <=> ~NameTokenIn(NameNoExt)

TakenBefore(before, after, i) ==
    before.used \cup
    { mfound[f].key : f \in
        { g \in 1..Len(mfound) :
            \E j \in 1..(i - 1) :
                \E k \in (Len(before.matches) + 1)..Len(after.matches) :
                    /\ after.matches[k].expected_name = before.remaining[j]
                    /\ after.matches[k].actual_filename
                           = mfound[g].key \o ExtHdl } }

\* the candidates of expected name exp among the found names not taken
Candidates(exp, taken) ==
    { n \in { mfound[f].key : f \in 1..Len(mfound) } \ taken :
        \/ Contains(Lower(n), Lower(exp))
        \/ Contains(Lower(exp), Lower(n)) }

\* len(exp)/len(n) > 0.4
RatioAboveThreshold(exp, n) == 5 * Len(exp) > 2 * Len(n)

\* the candidates of the greatest ratio len(exp)/len(n): the shortest ones
BestCandidates(exp, taken) ==
    { c \in Candidates(exp, taken) :
        \A d \in Candidates(exp, taken) : Len(c) <= Len(d) }

\* the records pass 4 added for expected name exp
AddedRecords(before, after, exp) ==
    { after.matches[k] : k \in
        { x \in (Len(before.matches) + 1)..Len(after.matches) :
            after.matches[x].expected_name = exp } }

\* C25: pass 4 of _match_files takes each expected name left over by
\* passes 1-3 in turn; its candidates are the found names not yet taken
\* such that, letter case ignored, one name is a substring of the other;
\* the candidate chosen is one of the greatest ratio len(expected)/len(found)
\* and it is accepted if and only if that ratio is strictly greater than
\* 0.4; a name with no accepted candidate stays unresolved and is then
\* recorded as not_found.
C25_SubstringPass ==
    [][ /\ (mpc = "pass4" /\ mpc' = "finish") =>
               \A i \in 1..Len(mst.remaining) :
                   LET exp   == mst.remaining[i]
                       taken == TakenBefore(mst, mst', i)
                       best  == BestCandidates(exp, taken)
                       added == AddedRecords(mst, mst', exp)
                   IN  IF \E c \in best : RatioAboveThreshold(exp, c)
                       THEN /\ \E c \in best :
                                  /\ DictHas(mst'.matched, exp)
                                  /\ DictGet(mst'.matched, exp) = PathOf(c)
                                  /\ c \in mst'.used
                                  /\ \A m \in added :
                                         /\ m.match_type = "fuzzy"
                                         /\ m.actual_filename = c \o ExtHdl
                            /\ Cardinality(added) = 1
                            /\ \A k \in 1..Len(mst'.remaining) :
                                   mst'.remaining[k] # exp
                       ELSE /\ ~DictHas(mst'.matched, exp)
                            /\ added = {}
                            /\ \E k \in 1..Len(mst'.remaining) :
                                   mst'.remaining[k] = exp
        /\ (mpc = "finish" /\ mpc' = "done") =>
               \A i \in 1..Len(mst.remaining) :
                   /\ ~DictHas(mst'.matched, mst.remaining[i])
                   /\ \A m \in AddedRecords(mst, mst', mst.remaining[i]) :
                          m.match_type = "not_found"
                   /\ Cardinality(AddedRecords(mst, mst', mst.remaining[i])) = 1
      ]_vars

\* pass 4 resolved one name by a candidate of ratio 0.6 and left another
\* unresolved whose only candidate has the ratio 0.4 exactly
C25_Witness ==
    /\ mpc = "done"
    /\ \E i \in 1..Len(mst.matches) :
           /\ mst.matches[i].match_type = "fuzzy"
           /\ \E f \in 1..Len(mfound) :
                  /\ mst.matches[i].actual_filename = mfound[f].key \o ExtHdl
                  /\ FuzzyOnly(mfound[f].key, mst.matches[i].expected_name)
    /\ \E i \in 1..Len(mst.remaining) :
           \E c \in Candidates(mst.remaining[i], mst.used) :
               5 * Len(mst.remaining[i]) = 2 * Len(c)

\* C26: every sandbox directory _run_one made is removed when _run_one
\* returns, on every exit path after its creation: pass, mismatch, syntax,
\* timeout, and an exception raised while copying files or running the
\* simulator; and no exception leaves _run_one once the sandbox is made.
C26_SandboxRemoved ==
    (upc = "ret" /\ uout.mk) =>
        /\ uout.rm
        /\ ~uout.raised
        /\ uout.result.error_type \in
               {"pass", "mismatch", "syntax", "timeout", "internal"}

\* the copy into the sandbox raised: the sandbox was made, the simulator
\* never started, and the sandbox is gone
C26_Witness ==
    /\ upc = "ret"
    /\ ~uin.env.copy
    /\ uout.mk
    /\ ~uout.sim
    /\ uout.rm
    /\ uout.result.error_type = "internal"

\* the indices 1..total at which the trimmed lines differ
DifferingLines(cmp, out) == (1..(Len(cmp) - 1)) \ MatchingLines(cmp, out)

\* C27: _partial_credit records the first mismatch only: the fail line is
\* the least index i >= 1 at which the trimmed comparison line differs from
\* the trimmed output line, the expected and actual strings are the two
\* trimmed lines at that index (an absent output line being empty), and the
\* fail line is 0 with empty strings when no line differs.
C27_FirstMismatchOnly ==
    (/\ upc = "ret"
     /\ ~uout.raised
     /\ uout.result.error_type = "mismatch"
     /\ uin.env.cmp.exists
     /\ Len(uin.env.cmp.lines) >= 2
     /\ uin.env.out.exists) =>
        LET cmp  == uin.env.cmp.lines
            out  == uin.env.out.lines
            diff == DifferingLines(cmp, out)
        IN  IF diff = {}
            THEN /\ uout.result.fail_line = 0
                 /\ uout.result.expected = << >>
                 /\ uout.result.actual = << >>
            ELSE /\ uout.result.fail_line \in diff
                 /\ \A i \in diff : uout.result.fail_line <= i
                 /\ uout.result.expected = Strip(cmp[uout.result.fail_line + 1])
                 /\ uout.result.actual =
                        IF uout.result.fail_line + 1 <= Len(out)
                        THEN Strip(out[uout.result.fail_line + 1]) ELSE << >>

\* three lines differ, the first of them is reported, and it differs from
\* what the last of them would give
C27_Witness ==
    /\ upc = "ret"
    /\ uout.result.error_type = "mismatch"
    /\ Cardinality(DifferingLines(uin.env.cmp.lines, uin.env.out.lines)) = 3
    /\ uout.result.fail_line = 2
    /\ uout.result.expected = L0
    /\ uout.result.expected # Strip(uin.env.cmp.lines[5])

\* C28: when the comparison failed and the output trace or the comparison
\* trace is missing, or the comparison trace has fewer than 2 lines, the
\* result has zero passed tests, total tests and fail line, empty expected
\* and actual strings, and zero points; it is reported as an internal
\* condition and not as a partial-credit outcome.
C28_DegenerateTraces ==
    (/\ upc = "ret"
     /\ uout.child = "exited"
     /\ ~HasSuccess(RunOutput)
     /\ HasFailure(RunOutput)
     /\ \/ ~uin.env.cmp.exists
        \/ ~uin.env.out.exists
        \/ Len(uin.env.cmp.lines) < 2) =>
        /\ ~uout.raised
        /\ uout.result.points = 0
        /\ ~uout.result.passed
        /\ uout.result.passed_tests = 0
        /\ uout.result.total_tests = 0
        /\ uout.result.fail_line = 0
        /\ uout.result.expected = << >>
        /\ uout.result.actual = << >>
        /\ uout.result.error_type = "internal"

\* what a set of outcomes gives for the score: whether the call raised,
\* the ComponentResults and the total
Scores(outcomes) ==
    { [raised |-> o.raised, chips |-> o.result.chips,
       total_earned |-> o.result.total_earned] : o \in outcomes }

IsPrefix(s, t) == Len(s) <= Len(t) /\ SubSeq(t, 1, Len(s)) = s

\* C23: naming validation and cascade analysis are advisory: for a fixed
\* archive and fixed runs the ComponentResults and total_earned are the same
\* whatever the archive file name and the display name are, and the cascade
\* analysis changes no ComponentResult and no total (the total is rounded in
\* the same statement block), it only adds warnings.
C23_AdvisoryOnly ==
    upc = "ret" =>
        /\ Scores(uout.a) = Scores(uout.b)
        /\ \A f \in uout.a :
               \E g \in uout.loop :
                   /\ g.out.raised = f.raised
                   /\ g.out.result.chips = f.result.chips
                   /\ f.result.total_earned
                          \in Round2(g.out.result.total_earned, 1)
                   /\ IsPrefix(g.out.result.warnings, f.result.warnings)
                   /\ [f.result EXCEPT !.warnings = << >>, !.total_earned = 0]
                          = [g.out.result EXCEPT !.warnings = << >>,
                                                 !.total_earned = 0]

\* the same archive graded under a canonical and under a wrong archive name,
\* with points earned and a cascade warning added
C23_Witness ==
    /\ upc = "ret"
    /\ \E f \in uout.a : \E h \in uout.b : \E g \in uout.loop :
           /\ ~f.raised /\ ~h.raised
           /\ f.result.zip_naming.is_correct
           /\ ~h.result.zip_naming.is_correct
           /\ f.result.total_earned > 0
           /\ f.result.chips = g.out.result.chips
           /\ Len(f.result.warnings) > Len(g.out.result.warnings)

\* the temporary directories call p holds
LiveDirs(p) == { d \in {calls[p].tmp, calls[p].sb} : d # 0 }

\* C24: calls of grade_student in progress at the same time each return
\* what they return alone; no two calls and no two component runs use the
\* same temporary directory, and what a call reads from its directories is
\* what it wrote there itself.
C24_Isolated ==
    calls # << >> =>
        /\ \A p \in CallIds :
               LET c == calls[p]
               IN  /\ c.pc = "done" =>
                          [raised |-> c.raised, result |-> c.result]
                              \in grade_student(c.sub, Project)
                   /\ c.tmp # 0 => fs[c.tmp] = Extracted(c.sub)
                   /\ c.sb # 0 => /\ c.sb # c.tmp
                                  /\ fs[c.sb] = Copied(c.sub.envs[c.ci])
        /\ \A p, q \in CallIds :
               p # q => LiveDirs(p) \cap LiveDirs(q) = {}

\* two calls for different archives and runs, each begun while the other
\* was in progress, both returned with points, one while the other's
\* simulator was still to run
C24_Witness ==
    /\ calls # << >>
    /\ calls[1].pc = "done" /\ ~calls[1].raised
    /\ calls[1].result.total_earned > 0
    /\ calls[2].pc = "sim"
    /\ 2 \in calls[1].met
    /\ calls[1].sub.archive # calls[2].sub.archive
    /\ calls[1].sub.envs # calls[2].sub.envs

\* the entry under review
UnderReview == user_data.queue[user_data.idx + 1]

\* the rows of the results table a step wrote
RowsWritten == { r \in DOMAIN db : db'[r] # db[r] }

\* a step that saved a grade in the grade book
GradeSaved == Len(sent') = Len(sent) + 1

\* C29: whatever buttons are pressed, when review_action sends a grade and
\* marks a stored result submitted, the grade is sent for the student of
\* that stored result, and a stored result marked submitted or skipped is
\* the one under review.
C29_RightStudentRightRow ==
    [][rvars' # rvars =>
         /\ GradeSaved =>
                \E r \in RowsWritten :
                    db[r].user_id = sent'[Len(sent')].uid
         /\ \A r \in RowsWritten :
                /\ user_data.idx < Len(user_data.queue)
                /\ r = UnderReview.rid]_vars

\* C30: a stored result is marked submitted only after the remote grade
\* submission for it returned without error; when the remote submission
\* fails (the keyboard goes, nothing is sent on) the index and the rows are
\* as before; the index moves by exactly one on each submit that succeeded
\* and each skip, and never passes the end of the queue.
C30_MarkedAfterSaved ==
    [][rvars' # rvars =>
         /\ \A r \in RowsWritten :
                db'[r].status = "submitted" =>
                    /\ GradeSaved
                    /\ sent'[Len(sent')].uid = db[r].user_id
                    /\ sent'[Len(sent')].grade = db'[r].submitted_grade
         /\ (Len(chat') = Len(chat) /\ chat' # chat) =>
                UNCHANGED << user_data, db, sent >>
         /\ (GradeSaved \/ \E r \in RowsWritten : db'[r].status = "skipped") =>
                user_data'.idx = user_data.idx + 1
         /\ user_data'.idx \in {user_data.idx, user_data.idx + 1}
         /\ user_data'.idx <= Len(user_data'.queue)]_vars

=============================================================================
